---- MODULE Spec2Model ----
(***************************************************************************)
(* Request middleware pipeline of the sales-api service.                   *)
(*                                                                         *)
(* A web.Handler is modelled as the sequence of its layers, outermost      *)
(* first and the business handler last. A request task walks that sequence *)
(* inwards (each middleware's code before its call of the next handler)    *)
(* and outwards (its code after that call returned). Errors are values     *)
(* returned layer to layer; the response writer, the log, the request      *)
(* scoped context and the shutdown channel are the state they act on.      *)
(***************************************************************************)
EXTENDS Integers, Sequences, FiniteSets, TLC

VARIABLES
    pc,             \* position of the request task: idle, in, out, handled, done
    wiring,         \* the registration the request was dispatched to
    viaHandle,      \* TRUE: entered through the closure App.Handle registers
    chain,          \* the composed handler: layers outermost first
    depth,          \* index in chain of the layer that runs next
    header,         \* value of the request's Authorization header
    ctxs,           \* ctxs[d]: the context layer d was called with
    ret,            \* ret[d]: the error layer d returned (Pending before)
    trace,          \* what ran, in order
    written,        \* what was written to the http.ResponseWriter, in order
    log,            \* what was written to the server log, in order
    statusCode,     \* Values.StatusCode of the request
    validateCalls,  \* number of calls of Auth.ValidateToken by this request
    validated,      \* what the last ValidateToken call returned
    signals,        \* number of App.SignalShutdown calls so far
    served          \* number of requests handled so far

\* The server with its concurrent request tasks.
VARIABLES
    tpc,            \* tpc[t]: position of request task t
    tctx,           \* tctx[t]: the context task t passes down its chain
    heap,           \* heap[a]: the web.Values stored at address a
    req,            \* req[t]: what request t carries and how its chain ends
    seen,           \* seen[t]: what the code of task t read from its context
    shutdown,       \* content of the shutdown channel, oldest first
    runPc,          \* position of run: select, shutdown, returned
    runErr,         \* what run returned
    osSent,         \* number of signals the OS sent to the process
    lpc,            \* position of the listener goroutine: serving, sending, exited
    listenErr,      \* what api.ListenAndServe returned
    serverErrors,   \* content of the serverErrors channel
    apiCalls        \* run's calls of api.Shutdown and api.Close, in order

\* The Authenticator and the token at hand.
VARIABLES
    clock,          \* the current time
    auth,           \* the Authenticator: its active key ID and its key store
    tokenStr,          \* the token at hand
    issued,         \* the claims and key ID the token at hand was generated for
    result,         \* what validating the token at hand now returned
    reached,        \* Authenticate called the next handler for the token
    op              \* the operation the token at hand came from

\* A call of Claims.Authorized.
VARIABLES
    hasClaims,      \* the claims Authorized is called on
    wantRoles,      \* the roles it is called with
    answer          \* what it returned, and what Authorize made of it

\* The user store over its table of the database.
VARIABLES
    users,          \* the users table: the row stored under each user_id
    usedIDs,        \* the IDs validate.GenerateID has handed out
    created,        \* created[id]: the user Create returned, not changed since
    deleted,        \* the IDs a Delete succeeded for
    storeRet        \* the last store call and what it returned

\* A call of database.StatusCheck.
VARIABLES
    scPc,           \* position of StatusCheck: idle, ping, sleep, loopcheck,
                    \* check, query, returned
    attempts,       \* its loop counter
    ctxKind,        \* the context it was called with: background, cancel, timeout
    ctxDone,        \* the context is done
    scErr,          \* what StatusCheck returned
    scSaw           \* what it saw: last ping, ctx.Err() after the loop, query

requestVars == <<pc, wiring, viaHandle, chain, depth, header, ctxs, ret, trace,
                 written, log, statusCode, validateCalls, validated, signals,
                 served>>

listenerVars == <<lpc, listenErr, serverErrors, apiCalls>>

serverVars == <<tpc, tctx, heap, req, seen, shutdown, runPc, runErr, osSent,
                listenerVars>>

tokenVars == <<clock, auth, tokenStr, issued, result, reached, op>>

authorizedVars == <<hasClaims, wantRoles, answer>>

storeVars == <<users, usedIDs, created, deleted, storeRet>>

statusVars == <<scPc, attempts, ctxKind, ctxDone, scErr, scSaw>>

\* the state outside the request pipeline
auxVars == <<serverVars, tokenVars, authorizedVars, storeVars, statusVars>>

vars == <<requestVars, auxVars>>

(***************************************************************************)
(* Bounds of the model.                                                    *)
(***************************************************************************)
MaxRequests == 1    \* requests handled one after the other
MaxHeaderLen == 3   \* pieces of an Authorization header value
MaxRoles == 1       \* roles carried by one claims value
MaxWrap == 1        \* fmt.Errorf("%w") wrappings around a returned error
MaxRand == 3        \* largest value drawn from rand.Intn in the model

(***************************************************************************)
(* HTTP status codes used by the code.                                     *)
(***************************************************************************)
StatusOK == 200
StatusBadRequest == 400
StatusUnauthorized == 401
StatusForbidden == 403
StatusInternalServerError == 500

(***************************************************************************)
(* Errors. An error value is its root (kind, status, msg) and the number   *)
(* of %w wrappings around it. Nil is the nil error.                        *)
(*   request  : *validate.RequestError, carries Status                     *)
(*   field    : validate.FieldErrors                                       *)
(*   shutdown : *web.shutdownError                                         *)
(*   other    : any other error (errors.New, a failed write, ...)          *)
(***************************************************************************)
Nil == [kind |-> "nil", status |-> 0, msg |-> "", wrap |-> 0]

Pending == [kind |-> "pending", status |-> 0, msg |-> "", wrap |-> 0]

NewError(msg) == [kind |-> "other", status |-> 0, msg |-> msg, wrap |-> 0]

NewRequestError(msg, status) ==
    [kind |-> "request", status |-> status, msg |-> msg, wrap |-> 0]

NewFieldErrors(msg) == [kind |-> "field", status |-> 0, msg |-> msg, wrap |-> 0]

NewShutdownError(msg) ==
    [kind |-> "shutdown", status |-> 0, msg |-> msg, wrap |-> 0]

RECURSIVE Wrapped(_, _)
Wrapped(err, n) ==
    IF n = 0 THEN err ELSE Wrapped([err EXCEPT !.wrap = @ + 1], n - 1)

\* validate.Cause: unwrap until the root error is reached.
RECURSIVE Cause(_)
Cause(err) ==
    IF err.wrap = 0 THEN err ELSE Cause([err EXCEPT !.wrap = @ - 1])

\* The dynamic type of an error value: a wrapped error is a wrapError
\* whatever its root is.
TypeOf(err) == IF err.wrap > 0 THEN "wrapError" ELSE err.kind

\* web.IsShutdown: errors.As finds a shutdownError anywhere in the chain.
IsShutdown(err) == TypeOf(Cause(err)) = "shutdown"

MsgHeaderFormat == "expected authorization header format: bearer <token>"
MsgInvalidToken == "invalid token"
MsgNoClaims == "you are not authorized for that action, no claims"
MsgNotAuthorized == "you are not authorized for that action"
MsgNoValues == "web value missing from context"
MsgUntrusted == "untrusted error"
MsgInternal == "sql: connection refused for user postgres"
MsgValidation == "data validation error"
MsgWriteFailed == "write: broken pipe"
MsgMarshalFailed == "json: unsupported type"
MsgForbidden == "attempted action is not allowed"
MsgTrusted == "trusted error"
InternalServerErrorText == "Internal Server Error"

(***************************************************************************)
(* Claims and the request scoped context.                                  *)
(***************************************************************************)
RoleAdmin == "ADMIN"
RoleUser == "USER"
Roles == {RoleAdmin, RoleUser}
Subjects == {"user-1", "user-2"}

RoleLists == UNION {[1..n -> Roles] : n \in 0..MaxRoles}

NoClaims == [present |-> FALSE, sub |-> "", roles |-> <<>>]

ClaimsOf(sub, roles) == [present |-> TRUE, sub |-> sub, roles |-> roles]

AllClaims == {ClaimsOf(s, rs) : s \in Subjects, rs \in RoleLists}

\* ctx value: does it hold the *web.Values, and which claims does it hold.
Ctx(values, claims) == [values |-> values, claims |-> claims]

\* auth.SetClaims: a copy of ctx holding claims.
SetClaims(ctx, claims) == [ctx EXCEPT !.claims = claims]

\* Claims.Authorized: some role of the claims equals some wanted role.
RECURSIVE HasRole(_, _, _)
HasRole(want, roles, i) ==
    IF i > Len(roles) THEN FALSE
    ELSE IF roles[i] = want THEN TRUE
    ELSE HasRole(want, roles, i + 1)

RECURSIVE AuthorizedFrom(_, _, _)
AuthorizedFrom(claims, roles, i) ==
    IF i > Len(claims.roles) THEN FALSE
    ELSE IF HasRole(claims.roles[i], roles, 1) THEN TRUE
    ELSE AuthorizedFrom(claims, roles, i + 1)

\* A plausible slip: only the first of the wanted roles is looked for.
AuthorizedFirstWanted(claims, roles) ==
    roles # <<>> /\ HasRole(roles[1], claims.roles, 1)

Authorized(claims, roles) == AuthorizedFrom(claims, roles, 1)

(***************************************************************************)
(* Layers of a handler and the registrations.                              *)
(***************************************************************************)
Layer(kind) == [kind |-> kind, roles |-> <<>>]

Logger == Layer("Logger")
Errors == Layer("Errors")
Metrics == Layer("Metrics")
Panics == Layer("Panics")
Authenticate == Layer("Authenticate")
Authorize(roles) == [kind |-> "Authorize", roles |-> roles]
MarkerA == Layer("A")
MarkerB == Layer("B")
Test == Layer("Test")
Business == Layer("Business")
MarkerH == Layer("H")

\* wrapMiddleware: wrap the handler with mw[n], then mw[n-1], ..., then mw[1],
\* so that mw[1] is the outermost layer of the result.
RECURSIVE wrapFrom(_, _, _)
wrapFrom(mw, handler, i) ==
    IF i < 1 THEN handler ELSE wrapFrom(mw, <<mw[i]>> \o handler, i - 1)

wrapMiddleware(mw, handler) == wrapFrom(mw, handler, Len(mw))

\* A plausible slip: the application's middleware wrapped first (innermost).
HandleAppInside(appMw, handler, routeMw) ==
    wrapMiddleware(routeMw, wrapMiddleware(appMw, <<handler>>))

\* A plausible slip: the application's middleware is not wrapped at all.
HandleRouteOnly(appMw, handler, routeMw) ==
    wrapMiddleware(routeMw, <<handler>>)

\* App.Handle: the handler specific middleware is wrapped around the handler
\* first, the application's middleware around the result.
Handle(appMw, handler, routeMw) ==
    wrapMiddleware(appMw, wrapMiddleware(routeMw, <<handler>>))

\* APIMux: the middleware of the application, in the order given to NewApp.
APIMuxMw == <<Logger, Errors, Metrics, Panics>>

Route(appMw, handler, routeMw) ==
    [app |-> appMw, handler |-> handler, route |-> routeMw]

\* a registration that names Authorize before Authenticate
V1RoutesAuthorizeFirst ==
    { Route(APIMuxMw, Test, <<>>),
      Route(APIMuxMw, Test, <<Authorize(<<RoleAdmin>>), Authenticate>>),
      Route(APIMuxMw, Business, <<>>),
      Route(APIMuxMw, Business, <<Authenticate>>),
      Route(APIMuxMw, Business, <<Authorize(<<RoleAdmin>>), Authenticate>>) }

\* v1: the routes of the service. /test, /users/token: no middleware;
\* /users/:id: Authenticate alone; /testauth and the other user routes:
\* Authenticate then Authorize("ADMIN").
V1Routes ==
    { Route(APIMuxMw, Test, <<>>),
      Route(APIMuxMw, Test, <<Authenticate, Authorize(<<RoleAdmin>>)>>),
      Route(APIMuxMw, Business, <<>>),
      Route(APIMuxMw, Business, <<Authenticate>>),
      Route(APIMuxMw, Business, <<Authenticate, Authorize(<<RoleAdmin>>)>>) }

\* Other registrations App.Handle and NewApp accept: two marker middlewares
\* around a marker handler, and the exported middlewares on their own.
MarkerRoutes ==
    { Route(<<MarkerA, MarkerB>>, MarkerH, <<>>),
      Route(<<>>, MarkerH, <<MarkerA, MarkerB>>),
      Route(<<MarkerA>>, MarkerH, <<MarkerB>>) }

AuthorizeRoleLists == {<<>>, <<RoleAdmin>>, <<RoleUser>>, <<RoleAdmin, RoleUser>>}

UnitRoutes ==
    { Route(<<Errors>>, Business, <<>>),
      Route(<<Errors>>, Business, <<Authenticate>>) }
    \cup { Route(<<Errors>>, Business, <<Authorize(rs)>>) : rs \in AuthorizeRoleLists }
    \cup { Route(<<Errors>>, Business, <<Authenticate, Authorize(rs)>>) :
             rs \in AuthorizeRoleLists }

Routes == V1Routes \cup MarkerRoutes \cup UnitRoutes

(***************************************************************************)
(* The Authorization header. A header value is a sequence of pieces: the   *)
(* space character, or a run of characters without a space. Adjacent runs  *)
(* read as one longer word, so a word is a sequence of runs.               *)
(***************************************************************************)
Space == " "
Runs == {"bearer", "Bearer", "basic", "tok"}
Pieces == {Space} \cup Runs

Headers == UNION {[1..n -> Pieces] : n \in 0..MaxHeaderLen}

\* strings.Split(s, " "): the words between the spaces, empty words included.
RECURSIVE SplitFrom(_, _, _)
SplitFrom(s, i, word) ==
    IF i > Len(s) THEN <<word>>
    ELSE IF s[i] = Space THEN <<word>> \o SplitFrom(s, i + 1, <<>>)
    ELSE SplitFrom(s, i + 1, Append(word, s[i]))

Split(s) == SplitFrom(s, 1, <<>>)

\* strings.ToLower on a word.
LowerRun(r) == IF r = "Bearer" THEN "bearer" ELSE r

ToLower(word) == [i \in 1..Len(word) |-> LowerRun(word[i])]

\* A plausible slip: only too few parts are refused.
MalformedHeaderAtLeastTwo(authStr) ==
    LET parts == Split(authStr)
    IN  Len(parts) < 2 \/ ToLower(parts[1]) # <<"bearer">>

\* Authenticate, the header test: not exactly two parts, or the first is
\* not "bearer" in any letter case.
MalformedHeader(authStr) ==
    LET parts == Split(authStr)
    IN  Len(parts) # 2 \/ ToLower(parts[1]) # <<"bearer">>

\* Auth.ValidateToken: an error, or the claims of the token. The empty
\* token never parses.
NotValidated == [err |-> Pending, claims |-> NoClaims]

ValidateToken(token) ==
    {[err |-> NewError(MsgInvalidToken), claims |-> NoClaims]}
    \cup (IF token = <<>> THEN {}
          ELSE {[err |-> Nil, claims |-> c] : c \in AllClaims})

\* A plausible slip: the claims are not put into the context passed on.
AuthenticateNoClaims(ctx, authStr, res) ==
    IF MalformedHeader(authStr)
    THEN [call |-> FALSE, ctx |-> ctx,
          err |-> NewRequestError(MsgHeaderFormat, StatusUnauthorized)]
    ELSE IF res.err # Nil
    THEN [call |-> FALSE, ctx |-> ctx,
          err |-> NewRequestError(res.err.msg, StatusUnauthorized)]
    ELSE [call |-> TRUE, ctx |-> ctx, err |-> Nil]

\* Authenticate, up to its call of the next handler. res is what
\* ValidateToken returned for parts[1] (read only when the header passed).
AuthenticateDecision(ctx, authStr, res) ==
    IF MalformedHeader(authStr)
    THEN [call |-> FALSE, ctx |-> ctx,
          err |-> NewRequestError(MsgHeaderFormat, StatusUnauthorized)]
    ELSE IF res.err # Nil
    THEN [call |-> FALSE, ctx |-> ctx,
          err |-> NewRequestError(res.err.msg, StatusUnauthorized)]
    ELSE [call |-> TRUE, ctx |-> SetClaims(ctx, res.claims), err |-> Nil]

\* A plausible slip: the role test is skipped.
AuthorizeNoRoleTest(ctx, roles) ==
    IF ~ctx.claims.present
    THEN [call |-> FALSE, err |-> NewRequestError(MsgNoClaims, StatusForbidden)]
    ELSE [call |-> TRUE, err |-> Nil]

\* A plausible slip: missing claims are let through.
AuthorizeNoClaimsTest(ctx, roles) ==
    IF ctx.claims.present /\ ~Authorized(ctx.claims, roles)
    THEN [call |-> FALSE, err |-> NewRequestError(MsgNotAuthorized, StatusForbidden)]
    ELSE [call |-> TRUE, err |-> Nil]

\* Authorize, up to its call of the next handler.
AuthorizeDecision(ctx, roles) ==
    IF ~ctx.claims.present
    THEN [call |-> FALSE, err |-> NewRequestError(MsgNoClaims, StatusForbidden)]
    ELSE IF ~Authorized(ctx.claims, roles)
    THEN [call |-> FALSE, err |-> NewRequestError(MsgNotAuthorized, StatusForbidden)]
    ELSE [call |-> TRUE, err |-> Nil]

(***************************************************************************)
(* web.Respond and the Errors middleware.                                  *)
(***************************************************************************)
Response(status, body, complete) ==
    [status |-> status, body |-> body, complete |-> complete]

\* web.Respond(ctx, w, data, status): what it returns, what it wrote to w and
\* whether it set Values.StatusCode. It fails without Values in ctx, when
\* data does not marshal (nothing is written), or when the write of the
\* body fails after the status line was written.
Respond(ctx, body, status, marshals) ==
    IF ~ctx.values
    THEN {[err |-> NewShutdownError(MsgNoValues), w |-> <<>>, set |-> FALSE]}
    ELSE {[err |-> Nil, w |-> <<Response(status, body, TRUE)>>, set |-> TRUE],
          [err |-> NewError(MsgWriteFailed),
           w |-> <<Response(status, body, FALSE)>>, set |-> TRUE]}
         \cup (IF marshals THEN {}
               ELSE {[err |-> NewError(MsgMarshalFailed), w |-> <<>>, set |-> TRUE]})

\* A plausible slip: the default case answers 400.
ErrorStatusDefaultBadRequest(err) ==
    LET act == Cause(err)
    IN  CASE TypeOf(act) = "field" -> StatusBadRequest
          [] TypeOf(act) = "request" -> act.status
          [] OTHER -> StatusBadRequest

\* Errors, the status of the error response: the switch on validate.Cause(err).
ErrorStatus(err) ==
    LET act == Cause(err)
    IN  CASE TypeOf(act) = "field" -> StatusBadRequest
          [] TypeOf(act) = "request" -> act.status
          [] OTHER -> StatusInternalServerError

\* A plausible slip: the default case sends the error's own text.
ErrorTextLeaking(err) ==
    LET act == Cause(err)
    IN  CASE TypeOf(act) = "field" -> MsgValidation
          [] TypeOf(act) = "request" -> act.msg
          [] OTHER -> act.msg

\* Errors, the Error text of the error response.
ErrorText(err) ==
    LET act == Cause(err)
    IN  CASE TypeOf(act) = "field" -> MsgValidation
          [] TypeOf(act) = "request" -> act.msg
          [] OTHER -> InternalServerErrorText

\* A plausible slip: a shutdown error is absorbed like any other.
ErrorsAbsorbAll(err, respondErr) ==
    IF respondErr # Nil THEN respondErr ELSE Nil

\* a plausible slip: every error of the next handler is handed on
ErrorsPropagateAll(err, respondErr) ==
    IF respondErr # Nil THEN respondErr ELSE err

\* Errors, what it returns after its Respond call returned respondErr for
\* the inner error err.
ErrorsReturn(err, respondErr) ==
    IF respondErr # Nil THEN respondErr
    ELSE IF IsShutdown(err) THEN err
    ELSE Nil

(***************************************************************************)
(* What a business handler can return without having written a response.  *)
(***************************************************************************)
RootErrors ==
    {NewError(MsgUntrusted), NewError(MsgInternal),
     NewFieldErrors(MsgValidation), NewShutdownError(MsgNoValues)}
    \cup {NewRequestError(MsgTrusted, StatusBadRequest),
          NewRequestError(MsgForbidden, StatusForbidden)}

HandlerErrors == {Wrapped(e, n) : e \in RootErrors, n \in 0..MaxWrap}

Ev(layer, what) == [layer |-> layer, ev |-> what]

LogEntry(src, msg, code) == [src |-> src, msg |-> msg, code |-> code]

(***************************************************************************)
(* The request task.                                                       *)
(***************************************************************************)
NoRoute == Route(<<>>, Layer("none"), <<>>)

RequestInit ==
    /\ pc = "idle"
    /\ wiring = NoRoute
    /\ viaHandle = FALSE
    /\ chain = <<>>
    /\ depth = 0
    /\ header = <<>>
    /\ ctxs = <<>>
    /\ ret = <<>>
    /\ trace = <<>>
    /\ written = <<>>
    /\ log = <<>>
    /\ statusCode = 0
    /\ validateCalls = 0
    /\ validated = NotValidated
    /\ signals = 0
    /\ served = 0

Cur == chain[depth]

InLayer(kind) == pc = "in" /\ Cur.kind = kind

OutLayer(kind) == pc = "out" /\ Cur.kind = kind

\* what the next handler returned to the current layer
Inner == ret[depth + 1]

\* the current layer calls the next handler with ctx
CallNext(ctx) ==
    /\ pc' = "in"
    /\ depth' = depth + 1
    /\ ctxs' = Append(ctxs, ctx)
    /\ ret' = ret
    /\ trace' = Append(trace, Ev(Cur.kind, "pre"))

\* the current layer returns err without having called the next handler
ReturnEarly(err) ==
    /\ pc' = IF depth = 1 THEN "handled" ELSE "out"
    /\ depth' = depth - 1
    /\ ctxs' = ctxs
    /\ ret' = [ret EXCEPT ![depth] = err]
    /\ trace' = trace \o <<Ev(Cur.kind, "pre"), Ev(Cur.kind, "post")>>

\* the current layer returns err after the next handler returned;
\* evs is what it did in between
ReturnAfter(err, evs) ==
    /\ pc' = IF depth = 1 THEN "handled" ELSE "out"
    /\ depth' = depth - 1
    /\ ctxs' = ctxs
    /\ ret' = [ret EXCEPT ![depth] = err]
    /\ trace' = trace \o evs \o <<Ev(Cur.kind, "post")>>

\* a new request begins: everything that belongs to one request is fresh
Begin(route, via, ctx) ==
    /\ pc \in {"idle", "done"}
    /\ served < MaxRequests
    /\ wiring' = route
    /\ viaHandle' = via
    /\ chain' = Handle(route.app, route.handler, route.route)
    /\ depth' = 1
    /\ pc' = "in"
    /\ ctxs' = <<ctx>>
    /\ ret' = [d \in 1..Len(chain') |-> Pending]
    /\ header' = <<>>
    /\ trace' = <<>>
    /\ written' = <<>>
    /\ log' = <<>>
    /\ statusCode' = 0
    /\ validateCalls' = 0
    /\ validated' = NotValidated
    /\ UNCHANGED <<signals, served>>
    /\ UNCHANGED auxVars

\* The closure App.Handle registers, up to its call of the wrapped handler:
\* a new Values is put into the context of the request.
HandleRequest == \E route \in Routes : Begin(route, TRUE, Ctx(TRUE, NoClaims))

\* The closure App.Handle registers, after the wrapped handler returned:
\* any error signals shutdown.
HandleReturn ==
    /\ pc = "handled"
    /\ viaHandle
    /\ pc' = "done"
    /\ served' = served + 1
    /\ IF ret[1] # Nil
       THEN /\ signals' = signals + 1
            /\ trace' = Append(trace, Ev("App", "signal"))
       ELSE UNCHANGED <<signals, trace>>
    /\ UNCHANGED <<wiring, viaHandle, chain, depth, header, ctxs, ret, written,
                   log, statusCode, validateCalls, validated>>
    /\ UNCHANGED auxVars

\* A composed handler called with a context that holds no Values, as a
\* caller other than App.Handle's closure can do.
DirectCall == \E route \in Routes : Begin(route, FALSE, Ctx(FALSE, NoClaims))

DirectReturn ==
    /\ pc = "handled"
    /\ ~viaHandle
    /\ pc' = "done"
    /\ served' = served + 1
    /\ UNCHANGED <<wiring, viaHandle, chain, depth, header, ctxs, ret, trace,
                   written, log, statusCode, validateCalls, validated, signals>>
    /\ UNCHANGED auxVars

(***************************************************************************)
(* The middlewares. XPre is the code of X before its call of the next      *)
(* handler (with the return that replaces the call), XPost its code after  *)
(* that call returned.                                                     *)
(***************************************************************************)
Quiet == <<wiring, viaHandle, chain, signals, served, auxVars>>

LoggerPre ==
    /\ InLayer("Logger")
    /\ IF ~ctxs[depth].values
       THEN /\ ReturnEarly(NewError(MsgNoValues))
            /\ log' = log
       ELSE /\ CallNext(ctxs[depth])
            /\ log' = Append(log, LogEntry("Logger", "request started", 0))
    /\ UNCHANGED <<header, written, statusCode, validateCalls, validated>>
    /\ UNCHANGED Quiet

LoggerPost ==
    /\ OutLayer("Logger")
    /\ log' = Append(log, LogEntry("Logger", "request completed", statusCode))
    /\ ReturnAfter(Inner, <<>>)
    /\ UNCHANGED <<header, written, statusCode, validateCalls, validated>>
    /\ UNCHANGED Quiet

\* a plausible slip: Errors calls the next handler without looking for the
\* Values
ErrorsPreNoCheck ==
    /\ InLayer("Errors")
    /\ CallNext(ctxs[depth])
    /\ UNCHANGED <<header, written, log, statusCode, validateCalls, validated>>
    /\ UNCHANGED Quiet

ErrorsPre ==
    /\ InLayer("Errors")
    /\ IF ~ctxs[depth].values
       THEN ReturnEarly(NewShutdownError(MsgNoValues))
       ELSE CallNext(ctxs[depth])
    /\ UNCHANGED <<header, written, log, statusCode, validateCalls, validated>>
    /\ UNCHANGED Quiet

ErrorsPost ==
    /\ OutLayer("Errors")
    /\ IF Inner = Nil
       THEN /\ ReturnAfter(Nil, <<>>)
            /\ UNCHANGED <<written, log, statusCode>>
       ELSE /\ log' = Append(log, LogEntry("Errors", Inner.msg, 0))
            /\ \E o \in Respond(ctxs[depth], ErrorText(Inner), ErrorStatus(Inner), TRUE) :
                 /\ written' = written \o o.w
                 /\ statusCode' = IF o.set THEN ErrorStatus(Inner) ELSE statusCode
                 /\ ReturnAfter(ErrorsReturn(Inner, o.err), <<Ev("Errors", "respond")>>)
    /\ UNCHANGED <<header, validateCalls, validated>>
    /\ UNCHANGED Quiet

\* the layers that call the next handler and return what it returned
PassPre(kind) ==
    /\ InLayer(kind)
    /\ CallNext(ctxs[depth])
    /\ UNCHANGED <<header, written, log, statusCode, validateCalls, validated>>
    /\ UNCHANGED Quiet

PassPost(kind) ==
    /\ OutLayer(kind)
    /\ ReturnAfter(Inner, <<>>)
    /\ UNCHANGED <<header, written, log, statusCode, validateCalls, validated>>
    /\ UNCHANGED Quiet

MetricsPre == PassPre("Metrics")

MetricsPost == PassPost("Metrics")

PanicsPre == PassPre("Panics")

PanicsPost == PassPost("Panics")

MarkerPre == \E m \in {"A", "B"} : PassPre(m)

MarkerPost == \E m \in {"A", "B"} : PassPost(m)

AuthenticatePre ==
    /\ InLayer("Authenticate")
    /\ \E authStr \in Headers :
         \E res \in (IF MalformedHeader(authStr) THEN {NotValidated}
                     ELSE ValidateToken(Split(authStr)[2])) :
           LET d == AuthenticateDecision(ctxs[depth], authStr, res)
           IN  /\ header' = authStr
               /\ validated' = res
               /\ validateCalls' = validateCalls + (IF res = NotValidated THEN 0 ELSE 1)
               /\ IF d.call THEN CallNext(d.ctx) ELSE ReturnEarly(d.err)
    /\ UNCHANGED <<written, log, statusCode>>
    /\ UNCHANGED Quiet

AuthenticatePost ==
    /\ OutLayer("Authenticate")
    /\ ReturnAfter(Inner, <<>>)
    /\ UNCHANGED <<header, written, log, statusCode, validateCalls, validated>>
    /\ UNCHANGED Quiet

AuthorizePre ==
    /\ InLayer("Authorize")
    /\ LET d == AuthorizeDecision(ctxs[depth], Cur.roles)
       IN  IF d.call THEN CallNext(ctxs[depth]) ELSE ReturnEarly(d.err)
    /\ UNCHANGED <<header, written, log, statusCode, validateCalls, validated>>
    /\ UNCHANGED Quiet

AuthorizePost ==
    /\ OutLayer("Authorize")
    /\ ReturnAfter(Inner, <<>>)
    /\ UNCHANGED <<header, written, log, statusCode, validateCalls, validated>>
    /\ UNCHANGED Quiet

(***************************************************************************)
(* The business handlers.                                                  *)
(***************************************************************************)
\* the handler returns err, having written w
HandlerReturns(err, w, code) ==
    /\ pc' = IF depth = 1 THEN "handled" ELSE "out"
    /\ depth' = depth - 1
    /\ ctxs' = ctxs
    /\ ret' = [ret EXCEPT ![depth] = err]
    /\ trace' = Append(trace, Ev(Cur.kind, "run"))
    /\ written' = written \o w
    /\ statusCode' = code

\* Handlers.Test: an untrusted error for an even draw, the OK status else.
TestRun ==
    /\ InLayer("Test")
    /\ \E n \in 0..MaxRand :
         IF n % 2 = 0
         THEN HandlerReturns(NewError(MsgUntrusted), <<>>, statusCode)
         ELSE \E o \in Respond(ctxs[depth], "OK", StatusOK, TRUE) :
                HandlerReturns(o.err, o.w, IF o.set THEN StatusOK ELSE statusCode)
    /\ UNCHANGED <<header, log, validateCalls, validated>>
    /\ UNCHANGED Quiet

\* A handler of the user group: an error, or what its Respond call returns.
BusinessRun ==
    /\ InLayer("Business")
    /\ \/ \E e \in HandlerErrors : HandlerReturns(e, <<>>, statusCode)
       \/ \E m \in BOOLEAN :
            \E o \in Respond(ctxs[depth], "data", StatusOK, m) :
              HandlerReturns(o.err, o.w, IF o.set THEN StatusOK ELSE statusCode)
    /\ UNCHANGED <<header, log, validateCalls, validated>>
    /\ UNCHANGED Quiet

\* The base handler of the marker registrations: records that it ran.
MarkerHRun ==
    /\ InLayer("H")
    /\ HandlerReturns(Nil, <<>>, statusCode)
    /\ UNCHANGED <<header, log, validateCalls, validated>>
    /\ UNCHANGED Quiet

(***************************************************************************)
(* The server. http.Server runs the closure App.Handle registered in its   *)
(* own goroutine for every request; run waits in its select for a server   *)
(* error or for a signal on the shutdown channel, which the OS and every   *)
(* App.SignalShutdown send to.                                             *)
(***************************************************************************)
MaxTasks == 2       \* request tasks in flight together
MaxOSSignals == 1   \* signals the OS sends to the process

\* make(chan os.Signal, 1)
ShutdownCap == 1

Tasks == 1..MaxTasks

\* span.SpanContext().TraceID() of the request
TraceIDOf(t) == t

NoAddr == 0

NoValues == [TraceID |-> 0, StatusCode |-> 0]

Values(traceID) == [TraceID |-> traceID, StatusCode |-> 0]

\* nothing read yet: no trace ID, no claims, no status code
NotSeen == [started |-> 0, claims |-> NoClaims, completed |-> 0, status |-> 0]

NoReq == [claims |-> NoClaims, err |-> Pending, status |-> 0]

\* the claims the tokens of concurrent requests validate to
TaskClaims == {ClaimsOf(s, <<RoleUser>>) : s \in Subjects}

SIGINT == "SIGINT"
SIGTERM == "SIGTERM"

ErrServer == NewError("server error")
ErrShutdown == NewError("could not stop server gracefully")

\* what api.ListenAndServe returns on its own, and after Shutdown or Close
ErrListen == NewError("listen tcp: address already in use")
ErrServerClosed == NewError("http: Server closed")

ServerErrorsCap == 1

\* the state the server leaves alone
outsideRun ==
    <<requestVars, tokenVars, authorizedVars, storeVars, statusVars>>

\* the state the request tasks and the OS leave alone
outsideServer == <<listenerVars, outsideRun>>

ServerInit ==
    /\ tpc = [t \in Tasks |-> "new"]
    /\ tctx = [t \in Tasks |-> [values |-> NoAddr, claims |-> NoClaims]]
    /\ heap = [a \in Tasks |-> NoValues]
    /\ req = [t \in Tasks |-> NoReq]
    /\ seen = [t \in Tasks |-> NotSeen]
    /\ shutdown = <<>>
    /\ runPc = "select"
    /\ runErr = Pending
    /\ osSent = 0
    /\ lpc = "serving"
    /\ listenErr = Pending
    /\ serverErrors = <<>>
    /\ apiCalls = <<>>

\* the process lives until run returns to main
Alive == runPc # "returned"

InFlight(t) == tpc[t] \notin {"new", "finished"}

\* A plausible slip: one Values for all requests (a package level variable).
SharedValues(t) == 1

\* &v of the t-th invocation of the closure: v is a local of the invocation.
NewValues(t) == t

\* App.Handle's closure up to its call of the wrapped handler.
TaskBegin(t) ==
    /\ runPc = "select"
    /\ tpc[t] = "new"
    /\ LET a == NewValues(t)
       IN  /\ heap' = [heap EXCEPT ![a] = Values(TraceIDOf(t))]
           /\ tctx' = [tctx EXCEPT ![t] = [values |-> a, claims |-> NoClaims]]
    /\ tpc' = [tpc EXCEPT ![t] = "logger"]
    /\ UNCHANGED <<req, seen, shutdown, runPc, runErr, osSent>>
    /\ UNCHANGED outsideServer

\* Logger before its call of the next handler: logs v.TraceID.
TaskLoggerPre(t) ==
    /\ Alive
    /\ tpc[t] = "logger"
    /\ seen' = [seen EXCEPT ![t].started = heap[tctx[t].values].TraceID]
    /\ tpc' = [tpc EXCEPT ![t] = "authenticate"]
    /\ UNCHANGED <<tctx, heap, req, shutdown, runPc, runErr, osSent>>
    /\ UNCHANGED outsideServer

\* Authenticate: the claims of the request's token are put into the context
\* that is passed on.
TaskAuthenticate(t) ==
    /\ Alive
    /\ tpc[t] = "authenticate"
    /\ \E claims \in TaskClaims :
         /\ req' = [req EXCEPT ![t].claims = claims]
         /\ tctx' = [tctx EXCEPT ![t] = SetClaims(tctx[t], claims)]
    /\ tpc' = [tpc EXCEPT ![t] = "handler"]
    /\ UNCHANGED <<heap, seen, shutdown, runPc, runErr, osSent>>
    /\ UNCHANGED outsideServer

\* The layers inside Authenticate: the claims are read from the context,
\* web.Respond sets v.StatusCode, and Errors returns nil or an error.
TaskHandler(t) ==
    /\ Alive
    /\ tpc[t] = "handler"
    /\ seen' = [seen EXCEPT ![t].claims = tctx[t].claims]
    /\ \E err \in {Nil, NewError(MsgWriteFailed)} :
         LET status == IF err = Nil THEN StatusOK ELSE StatusInternalServerError
         IN  /\ req' = [req EXCEPT ![t].err = err, ![t].status = status]
             /\ heap' = [heap EXCEPT ![tctx[t].values].StatusCode = status]
    /\ tpc' = [tpc EXCEPT ![t] = "completed"]
    /\ UNCHANGED <<tctx, shutdown, runPc, runErr, osSent>>
    /\ UNCHANGED outsideServer

\* Logger after the next handler returned: logs v.TraceID and v.StatusCode.
TaskLoggerPost(t) ==
    /\ Alive
    /\ tpc[t] = "completed"
    /\ seen' = [seen EXCEPT ![t].completed = heap[tctx[t].values].TraceID,
                            ![t].status = heap[tctx[t].values].StatusCode]
    /\ tpc' = [tpc EXCEPT ![t] = "returned"]
    /\ UNCHANGED <<tctx, heap, req, shutdown, runPc, runErr, osSent>>
    /\ UNCHANGED outsideServer

\* App.Handle's closure after the wrapped handler returned.
TaskReturn(t) ==
    /\ Alive
    /\ tpc[t] = "returned"
    /\ tpc' = [tpc EXCEPT ![t] = IF req[t].err # Nil THEN "signal" ELSE "finished"]
    /\ UNCHANGED <<tctx, heap, req, seen, shutdown, runPc, runErr, osSent>>
    /\ UNCHANGED outsideServer

\* App.SignalShutdown: a.shutdown <- syscall.SIGTERM, which waits for room
\* in the channel.
SignalShutdown(t) ==
    /\ Alive
    /\ tpc[t] = "signal"
    /\ Len(shutdown) < ShutdownCap
    /\ shutdown' = Append(shutdown, SIGTERM)
    /\ tpc' = [tpc EXCEPT ![t] = "finished"]
    /\ UNCHANGED <<tctx, heap, req, seen, runPc, runErr, osSent>>
    /\ UNCHANGED outsideServer

\* signal.Notify: the signal package sends without waiting and drops the
\* signal when the channel has no room.
OSSignal ==
    /\ Alive
    /\ osSent < MaxOSSignals
    /\ osSent' = osSent + 1
    /\ shutdown' = IF Len(shutdown) < ShutdownCap
                   THEN Append(shutdown, SIGINT)
                   ELSE shutdown
    /\ UNCHANGED <<tpc, tctx, heap, req, seen, runPc, runErr>>
    /\ UNCHANGED outsideServer

\* the listener goroutine: api.ListenAndServe fails on its own
ListenFail ==
    /\ Alive
    /\ lpc = "serving"
    /\ apiCalls = <<>>
    /\ lpc' = "sending"
    /\ listenErr' = ErrListen
    /\ UNCHANGED <<serverErrors, apiCalls>>
    /\ UNCHANGED <<tpc, tctx, heap, req, seen, shutdown, runPc, runErr, osSent>>
    /\ UNCHANGED outsideRun

\* the listener goroutine: api.ListenAndServe returns because run called
\* api.Shutdown
ListenClosed ==
    /\ Alive
    /\ lpc = "serving"
    /\ apiCalls # <<>>
    /\ lpc' = "sending"
    /\ listenErr' = ErrServerClosed
    /\ UNCHANGED <<serverErrors, apiCalls>>
    /\ UNCHANGED <<tpc, tctx, heap, req, seen, shutdown, runPc, runErr, osSent>>
    /\ UNCHANGED outsideRun

\* a send on an unbuffered serverErrors: it completes when run receives
ListenerSendUnbuffered ==
    /\ Alive
    /\ lpc = "sending"
    /\ runPc = "select"
    /\ serverErrors = <<>>
    /\ serverErrors' = <<listenErr>>
    /\ lpc' = "exited"
    /\ UNCHANGED <<listenErr, apiCalls>>
    /\ UNCHANGED <<tpc, tctx, heap, req, seen, shutdown, runPc, runErr, osSent>>
    /\ UNCHANGED outsideRun

\* the listener goroutine: serverErrors <- (what ListenAndServe returned),
\* which waits for room in the channel; the goroutine ends after it
ListenerSend ==
    /\ Alive
    /\ lpc = "sending"
    /\ Len(serverErrors) < ServerErrorsCap
    /\ serverErrors' = Append(serverErrors, listenErr)
    /\ lpc' = "exited"
    /\ UNCHANGED <<listenErr, apiCalls>>
    /\ UNCHANGED <<tpc, tctx, heap, req, seen, shutdown, runPc, runErr, osSent>>
    /\ UNCHANGED outsideRun

\* run, case err := <-serverErrors
RunServerError ==
    /\ runPc = "select"
    /\ serverErrors # <<>>
    /\ serverErrors' = Tail(serverErrors)
    /\ runPc' = "returned"
    /\ runErr' = ErrServer
    /\ UNCHANGED <<lpc, listenErr, apiCalls>>
    /\ UNCHANGED <<tpc, tctx, heap, req, seen, shutdown, osSent>>
    /\ UNCHANGED outsideRun

\* run, case sig := <-shutdown, up to its call of api.Shutdown(ctx) with the
\* deadline cfg.Web.ShutdownTimeout
RunReceive ==
    /\ runPc = "select"
    /\ shutdown # <<>>
    /\ shutdown' = Tail(shutdown)
    /\ runPc' = "shutdown"
    /\ apiCalls' = Append(apiCalls, "Shutdown")
    /\ UNCHANGED <<lpc, listenErr, serverErrors>>
    /\ UNCHANGED <<tpc, tctx, heap, req, seen, runErr, osSent>>
    /\ UNCHANGED outsideRun

\* a run that returns nil whatever api.Shutdown returned
RunShutdownAlwaysNil ==
    /\ runPc = "shutdown"
    /\ runErr' = Nil
    /\ apiCalls' = IF \A t \in Tasks : ~InFlight(t) THEN apiCalls
                   ELSE Append(apiCalls, "Close")
    /\ runPc' = "returned"
    /\ UNCHANGED <<lpc, listenErr, serverErrors>>
    /\ UNCHANGED <<tpc, tctx, heap, req, seen, shutdown, osSent>>
    /\ UNCHANGED outsideRun

\* run, api.Shutdown(ctx) returns: nil once no request is in flight, the
\* deadline error when cfg.Web.ShutdownTimeout passes before that; then
\* api.Close() and the error.
RunShutdown ==
    /\ runPc = "shutdown"
    /\ \/ /\ \A t \in Tasks : ~InFlight(t)
          /\ runErr' = Nil
          /\ UNCHANGED apiCalls
       \/ /\ \E t \in Tasks : InFlight(t)
          /\ runErr' = ErrShutdown
          /\ apiCalls' = Append(apiCalls, "Close")
    /\ runPc' = "returned"
    /\ UNCHANGED <<lpc, listenErr, serverErrors>>
    /\ UNCHANGED <<tpc, tctx, heap, req, seen, shutdown, osSent>>
    /\ UNCHANGED outsideRun

ServerNext ==
    \/ \E t \in Tasks : TaskBegin(t)
    \/ \E t \in Tasks : TaskLoggerPre(t)
    \/ \E t \in Tasks : TaskAuthenticate(t)
    \/ \E t \in Tasks : TaskHandler(t)
    \/ \E t \in Tasks : TaskLoggerPost(t)
    \/ \E t \in Tasks : TaskReturn(t)
    \/ \E t \in Tasks : SignalShutdown(t)
    \/ OSSignal
    \/ ListenFail
    \/ ListenClosed
    \/ ListenerSend
    \/ RunServerError
    \/ RunReceive
    \/ RunShutdown

(***************************************************************************)
(* Tokens. A token is its header (alg, kid), its payload (the claims as    *)
(* the JSON object they marshal to) and its signature. A signature records *)
(* the method and the private key it was made with and the signing string  *)
(* it was made over; it verifies against the public key of that private    *)
(* key, for that method and that signing string, and nothing else.         *)
(* The clock counts hours.                                                 *)
(***************************************************************************)
MaxTime == 2        \* largest value of the clock

\* ExpiresAt of GenToken's claims: time.Now().Add(8760 * time.Hour)
TokenHours == 8760

RS256 == "RS256"
RS512 == "RS512"
HS256 == "HS256"
Algs == {RS256, RS512, HS256}

\* the key files there are, by key ID
KeyIDs == {"kid-1", "kid-2"}

\* no kid in the header
NoKID == "<none>"

\* the kid values a token's header can carry
HeaderKIDs == KeyIDs \cup {"kid-x", NoKID}

PrivateKey(name) == [private |-> name]

PublicKey(privateKey) == [public |-> privateKey.private]

NoKey == [public |-> "<none>"]

\* the private key stored in the key file of kid
KeyFile(kid) == PrivateKey(kid)

\* the private keys a token can be signed with: the key files' and a key of
\* the sender's own
SigningKeys == {KeyFile(kid) : kid \in KeyIDs} \cup {PrivateKey("other")}

\* keystore.NewMap, keystore.NewFS: the keys of the given key IDs
KeyStore(kids) == [kid \in kids |-> KeyFile(kid)]

KeyStores == {KeyStore(kids) : kids \in SUBSET KeyIDs}

\* ExpiresAt not set
NoExpiry == -1

Expiries == {NoExpiry} \cup 0..(MaxTime + 1)

TokenClaimsOf(sub, roles, exp) ==
    [present |-> TRUE, sub |-> sub, roles |-> roles, exp |-> exp]

TokenClaims ==
    {TokenClaimsOf(s, rs, e) : s \in Subjects, rs \in RoleLists, e \in Expiries}

NoTokenClaims == [present |-> FALSE, sub |-> "", roles |-> <<>>, exp |-> NoExpiry]

\* json.Marshal of the claims
Payload(claims) == [sub |-> claims.sub, exp |-> claims.exp, Roles |-> claims.roles]

\* json.Unmarshal of the payload into the claims
ClaimsFrom(payload) == TokenClaimsOf(payload.sub, payload.Roles, payload.exp)

NoSignature == [alg |-> "", by |-> PrivateKey("<none>"), over |-> <<>>]

\* jwt.NewWithClaims(method, claims)
NewWithClaims(method, claims) ==
    [alg |-> method, kid |-> NoKID, payload |-> Payload(claims), sig |-> NoSignature]

\* no token at hand
NoToken == NewWithClaims("", NoTokenClaims)

\* token.Header["kid"] = kid
WithKID(tok, kid) == [tok EXCEPT !.kid = kid]

\* header and payload, the part of the token that is signed
SigningString(tok) == <<tok.alg, tok.kid, tok.payload>>

\* A plausible slip: the token is signed with a key other than the one given.
SignedWithOtherKey(tok, privateKey) ==
    [tok EXCEPT !.sig = [alg |-> tok.alg, by |-> PrivateKey("other"),
                         over |-> SigningString(tok)]]

\* token.SignedString(privateKey)
SignedString(tok, privateKey) ==
    [tok EXCEPT !.sig = [alg |-> tok.alg, by |-> privateKey, over |-> SigningString(tok)]]

\* token.Method.Verify(signingString, signature, key) for an *rsa.PublicKey:
\* the HMAC method takes no RSA key
Verify(alg, signingString, sig, key) ==
    /\ alg \in {RS256, RS512}
    /\ sig.alg = alg
    /\ sig.over = signingString
    /\ key = PublicKey(sig.by)

\* Claims.Valid: a set ExpiresAt must lie after now
ClaimsValid(payload, now) == payload.exp = NoExpiry \/ now < payload.exp

\* the flags of a jwt.ValidationError
SignatureInvalid == "ValidationErrorSignatureInvalid"
Unverifiable == "ValidationErrorUnverifiable"
Expired == "ValidationErrorExpired"

MsgMethodInvalid == "signing method is invalid"
MsgMissingKID == "missing key id (kid) in token header"
MsgKIDLookup == "kid lookup failed"
MsgVerification == "crypto/rsa: verification error"
MsgExpired == "token is expired"

Parsed(valid, claims, flags, msg) ==
    [valid |-> valid, claims |-> claims, flags |-> flags, msg |-> msg]

\* jwt.Parser{ValidMethods: []string{"RS256"}}
Parser == [ValidMethods |-> {RS256}]

\* A plausible slip: a parser without the list of valid methods.
ParseAnyMethod(parser, tok, key, now) ==
    IF key.err # Nil
    THEN Parsed(FALSE, ClaimsFrom(tok.payload), {Unverifiable}, key.err.msg)
    ELSE LET expired == ~ClaimsValid(tok.payload, now)
             badsig == ~Verify(tok.alg, SigningString(tok), tok.sig, key.key)
         IN  Parsed(~expired /\ ~badsig, ClaimsFrom(tok.payload),
                    (IF expired THEN {Expired} ELSE {})
                        \cup (IF badsig THEN {SignatureInvalid} ELSE {}),
                    IF badsig THEN MsgVerification
                    ELSE IF expired THEN MsgExpired ELSE "")

\* A plausible slip: the signature is verified first and a bad signature
\* ends the parse, so the claims are not looked at.
ParseSignatureFirst(parser, tok, key, now) ==
    IF tok.alg \notin parser.ValidMethods
    THEN Parsed(FALSE, ClaimsFrom(tok.payload), {SignatureInvalid}, MsgMethodInvalid)
    ELSE IF key.err # Nil
    THEN Parsed(FALSE, ClaimsFrom(tok.payload), {Unverifiable}, key.err.msg)
    ELSE IF ~Verify(tok.alg, SigningString(tok), tok.sig, key.key)
    THEN Parsed(FALSE, ClaimsFrom(tok.payload), {SignatureInvalid}, MsgVerification)
    ELSE IF ~ClaimsValid(tok.payload, now)
    THEN Parsed(FALSE, ClaimsFrom(tok.payload), {Expired}, MsgExpired)
    ELSE Parsed(TRUE, ClaimsFrom(tok.payload), {}, "")

\* parser.ParseWithClaims(tokenStr, &claims, keyFunc), key being what
\* keyFunc returns for the token: the method is tested against ValidMethods,
\* then the key is asked for, then the claims are validated and the
\* signature is verified, and the failures of these two are both reported.
ParseWithClaims(parser, tok, key, now) ==
    IF tok.alg \notin parser.ValidMethods
    THEN Parsed(FALSE, ClaimsFrom(tok.payload), {SignatureInvalid}, MsgMethodInvalid)
    ELSE IF key.err # Nil
    THEN Parsed(FALSE, ClaimsFrom(tok.payload), {Unverifiable}, key.err.msg)
    ELSE LET expired == ~ClaimsValid(tok.payload, now)
             badsig == ~Verify(tok.alg, SigningString(tok), tok.sig, key.key)
         IN  Parsed(~expired /\ ~badsig, ClaimsFrom(tok.payload),
                    (IF expired THEN {Expired} ELSE {})
                        \cup (IF badsig THEN {SignatureInvalid} ELSE {}),
                    IF badsig THEN MsgVerification
                    ELSE IF expired THEN MsgExpired ELSE "")

KeyFound(key) == [err |-> Nil, key |-> key]

KeyError(msg) == [err |-> NewError(msg), key |-> NoKey]

\* GenToken's keyFunc: the kid must be there; the key is the public key of
\* the private key GenToken read.
GenTokenKeyFunc(privateKey, tok) ==
    IF tok.kid = NoKID THEN KeyError(MsgMissingKID)
    ELSE KeyFound(PublicKey(privateKey))

\* auth.New(activeKID, keyLookup)
New(activeKID, keyLookup) == [activeKID |-> activeKID, keys |-> keyLookup]

NoAuth == [activeKID |-> NoKID, keys |-> <<>>]

\* A plausible slip: the key of the active key ID, whatever the token's kid.
KeyFuncActive(a, tok) ==
    IF tok.kid = NoKID THEN KeyError(MsgMissingKID)
    ELSE IF a.activeKID \notin DOMAIN a.keys THEN KeyError(MsgKIDLookup)
    ELSE KeyFound(PublicKey(a.keys[a.activeKID]))

\* A plausible slip: only the active key ID is looked up.
KeyFuncActiveOnly(a, tok) ==
    IF tok.kid = NoKID THEN KeyError(MsgMissingKID)
    ELSE IF tok.kid # a.activeKID \/ tok.kid \notin DOMAIN a.keys
    THEN KeyError(MsgKIDLookup)
    ELSE KeyFound(PublicKey(a.keys[tok.kid]))

\* Auth's keyFunc: the public key the key store holds for the token's kid.
KeyFunc(a, tok) ==
    IF tok.kid = NoKID THEN KeyError(MsgMissingKID)
    ELSE IF tok.kid \notin DOMAIN a.keys THEN KeyError(MsgKIDLookup)
    ELSE KeyFound(PublicKey(a.keys[tok.kid]))

\* Auth.GenerateToken: a token for the claims, signed with the private key
\* of the active key ID, which the header names; an error when the key
\* store does not hold the active key ID.
GenerateToken(a, claims) ==
    IF a.activeKID \notin DOMAIN a.keys
    THEN [err |-> NewError(MsgKIDLookup), tok |-> NoToken]
    ELSE [err |-> Nil,
          tok |-> SignedString(WithKID(NewWithClaims(RS256, claims), a.activeKID),
                               a.keys[a.activeKID])]

Validation(err, claims, flags) == [err |-> err, claims |-> claims, flags |-> flags]

NoValidation == Validation(Pending, NoTokenClaims, {})

\* what the caller of ParseWithClaims makes of its outcome: the claims when
\* the token is valid, the wrapped error else
Validated(parsed) ==
    IF parsed.valid
    THEN Validation(Nil, parsed.claims, {})
    ELSE Validation(Wrapped(NewError(parsed.msg), 1), NoTokenClaims, parsed.flags)

\* Auth.ValidateToken
AuthValidateToken(a, tok, now) ==
    Validated(ParseWithClaims(Parser, tok, KeyFunc(a, tok), now))

\* the tokens that can be sent to the service: any header and claims, signed
\* with any key by any method, and such tokens with the payload replaced
\* after signing
WellSigned ==
    {SignedString(WithKID(NewWithClaims(alg, claims), kid), key) :
        alg \in Algs, claims \in TokenClaims, kid \in HeaderKIDs, key \in SigningKeys}

Tampered ==
    {[tok EXCEPT !.payload = Payload(claims)] :
        tok \in {SignedString(WithKID(NewWithClaims(RS256, c), kid), KeyFile(kid)) :
                    c \in TokenClaims, kid \in KeyIDs},
        claims \in TokenClaims}

NotIssued == [claims |-> NoTokenClaims, kid |-> NoKID]

TokenInit ==
    /\ clock = 0
    /\ auth = NoAuth
    /\ tokenStr = NoToken
    /\ issued = NotIssued
    /\ result = NoValidation
    /\ reached = FALSE
    /\ op = "none"

\* the state the token operations leave alone
outsideTokens ==
    <<requestVars, serverVars, authorizedVars, storeVars, statusVars>>

\* run constructs the Authenticator from the key folder and the configured
\* active key ID. A restart of the service with another configuration
\* constructs it anew.
Construct ==
    /\ \E ks \in KeyStores : \E kid \in KeyIDs : auth' = New(kid, ks)
    /\ result' = NoValidation
    /\ reached' = FALSE
    /\ UNCHANGED <<clock, tokenStr, issued, op>>
    /\ UNCHANGED outsideTokens

\* time passes; what a validation returned held for the time it was made at
Tick ==
    /\ clock < MaxTime
    /\ clock' = clock + 1
    /\ result' = NoValidation
    /\ reached' = FALSE
    /\ UNCHANGED <<auth, tokenStr, issued, op>>
    /\ UNCHANGED outsideTokens

\* the token at hand is dropped
Forget ==
    /\ tokenStr # NoToken
    /\ tokenStr' = NoToken
    /\ issued' = NotIssued
    /\ result' = NoValidation
    /\ reached' = FALSE
    /\ op' = "none"
    /\ UNCHANGED <<clock, auth>>
    /\ UNCHANGED outsideTokens

\* Auth.GenerateToken(claims)
Generate ==
    /\ auth # NoAuth
    /\ tokenStr = NoToken
    /\ \E claims \in TokenClaims :
         LET g == GenerateToken(auth, claims)
         IN  /\ tokenStr' = g.tok
             /\ issued' = IF g.err = Nil
                          THEN [claims |-> claims, kid |-> auth.activeKID]
                          ELSE NotIssued
             /\ op' = IF g.err = Nil THEN "generate" ELSE "none"
    /\ result' = NoValidation
    /\ reached' = FALSE
    /\ UNCHANGED <<clock, auth>>
    /\ UNCHANGED outsideTokens

\* a client sends a token the service did not generate
Present ==
    /\ auth # NoAuth
    /\ tokenStr = NoToken
    /\ tokenStr' \in WellSigned \cup Tampered
    /\ issued' = NotIssued
    /\ op' = "present"
    /\ result' = NoValidation
    /\ reached' = FALSE
    /\ UNCHANGED <<clock, auth>>
    /\ UNCHANGED outsideTokens

\* Authenticate for a request with the header "bearer <token>":
\* Auth.ValidateToken and the decision that follows.
Validate ==
    /\ auth # NoAuth
    /\ op \in {"generate", "present"}
    /\ result = NoValidation
    /\ LET res == AuthValidateToken(auth, tokenStr, clock)
           d == AuthenticateDecision(Ctx(TRUE, NoClaims), <<"bearer", Space, "tok">>, res)
       IN  /\ result' = res
           /\ reached' = d.call
    /\ UNCHANGED <<clock, auth, tokenStr, issued, op>>
    /\ UNCHANGED outsideTokens

\* GenToken of the admin tool: a token for its fixed claims, signed with the
\* private key it read and parsed back with that key.
GenToken ==
    LET privateKey == KeyFile("kid-1")
        claims == TokenClaimsOf("user-id-123", <<RoleAdmin>>, clock + TokenHours)
        signedJwt == SignedString(WithKID(NewWithClaims(RS256, claims), "kid-1"),
                                  privateKey)
        parsed == ParseWithClaims(Parser, signedJwt,
                                  GenTokenKeyFunc(privateKey, signedJwt), clock)
    IN  /\ tokenStr = NoToken
        /\ tokenStr' = signedJwt
        /\ issued' = [claims |-> claims, kid |-> "kid-1"]
        /\ result' = Validated(parsed)
        /\ reached' = FALSE
        /\ op' = "gentoken"
        /\ UNCHANGED <<clock, auth>>
        /\ UNCHANGED outsideTokens

TokenNext ==
    \/ Construct
    \/ Tick
    \/ Forget
    \/ Generate
    \/ Present
    \/ Validate
    \/ GenToken

(***************************************************************************)
(* Claims.Authorized as a function of the claims' roles and the roles it   *)
(* is called with, and Authorize's use of it.                              *)
(***************************************************************************)
MaxRoleList == 2    \* length of a list of roles

\* role names, the service's two and one it does not know
RoleNames == {RoleAdmin, RoleUser, "GUEST"}

RoleListsUpTo(n) == UNION {[1..k -> RoleNames] : k \in 0..n}

NotAnswered == [done |-> FALSE, ok |-> FALSE, call |-> FALSE]

\* no call is being looked at
AuthorizedIdle ==
    /\ hasClaims = NoClaims
    /\ wantRoles = <<>>
    /\ answer = NotAnswered

\* a call on any claims with any roles
AnyCall ==
    /\ hasClaims \in {ClaimsOf("user-1", rs) : rs \in RoleListsUpTo(MaxRoleList)}
    /\ wantRoles \in RoleListsUpTo(MaxRoleList)
    /\ answer = NotAnswered

\* Authorize's call claims.Authorized(roles...) and what it does with the
\* answer
CallAuthorized ==
    /\ ~answer.done
    /\ answer' = [done |-> TRUE,
                  ok |-> Authorized(hasClaims, wantRoles),
                  call |-> AuthorizeDecision(Ctx(TRUE, hasClaims), wantRoles).call]
    /\ UNCHANGED <<hasClaims, wantRoles>>
    /\ UNCHANGED <<requestVars, serverVars, tokenVars, storeVars, statusVars>>

\* the next call is looked at
NextCall ==
    /\ answer.done
    /\ answer' = NotAnswered
    /\ UNCHANGED <<hasClaims, wantRoles>>
    /\ UNCHANGED <<requestVars, serverVars, tokenVars, storeVars, statusVars>>

AuthorizedNext ==
    \/ CallAuthorized
    \/ NextCall

(***************************************************************************)
(* The user store (business/data/store/user) over the users table, through *)
(* the helpers of business/sys/database. A user is written as one row of   *)
(* column values and read back by scanning the row into a user.User.       *)
(***************************************************************************)
MaxNow == 1         \* the times a store call is given as now: 1..MaxNow

Nows == 1..MaxNow

\* user.NewUser values
NewUsers ==
    [name : {"Piyush Saurabh"}, email : {"ps@roguesecurity.in"},
     roles : {<<RoleAdmin>>, <<RoleUser>>}, password : {"gophers"}]

\* a nil field of user.UpdateUser: the column is left as it is
NoChange == ""

\* user.UpdateUser values: a new name, or a new email
UpdateUsers ==
    {[name |-> "Jon Doe", email |-> NoChange],
     [name |-> NoChange, email |-> "jon@roguesecurity.in"]}

\* the claims a store call is given: the user's own, another user's, or
\* claims without a subject
StoreClaims ==
    {ClaimsOf(s, rs) : s \in Subjects \cup {""},
                       rs \in {<<RoleAdmin>>, <<RoleUser>>}}

\* user.User{}: the zero value
NoUser ==
    [id |-> "", name |-> "", email |-> "", roles |-> <<>>, hash |-> <<>>,
     dateCreated |-> 0, dateUpdated |-> 0]

\* no row is stored under the user_id
NoRow == <<>>

\* bcrypt.GenerateFromPassword
Hash(password) == <<"bcrypt", password>>

\* the column values a named statement takes from a user.User: user_id, name,
\* email, roles, password_hash, date_created, date_updated
Row(usr) ==
    <<usr.id, usr.name, usr.email, usr.roles, usr.hash, usr.dateCreated,
      usr.dateUpdated>>

\* rows.StructScan: the columns of a row into the fields of a user.User
StructScan(row) ==
    [id |-> row[1], name |-> row[2], email |-> row[3], roles |-> row[4],
     hash |-> row[5], dateCreated |-> row[6], dateUpdated |-> row[7]]

ErrNotFound == NewError("not found")
ErrForbidden == NewError(MsgForbidden)
\* what sqlx returns when the database does not answer
ErrDB == NewError(MsgInternal)

\* sqlx.NamedExecContext: the statement fails when the database is down
NamedExecContext(down) == IF down THEN ErrDB ELSE Nil

\* sqlx.NamedQueryContext for SELECT * FROM users WHERE user_id = :user_id
NamedQueryContext(table, userID, down) ==
    IF down THEN [err |-> ErrDB, rows |-> <<>>]
    ELSE [err |-> Nil,
          rows |-> IF table[userID] = NoRow THEN <<>> ELSE <<table[userID]>>]

\* a single-row helper that takes a query without rows for a success
NamedQueryStructEmptyOK(res, dest) ==
    IF res.err # Nil THEN [err |-> res.err, dest |-> dest]
    ELSE IF res.rows = <<>> THEN [err |-> Nil, dest |-> dest]
    ELSE [err |-> Nil, dest |-> StructScan(res.rows[1])]

\* a single-row helper that reports success without scanning the row
NamedQueryStructNoScan(res, dest) ==
    IF res.err # Nil THEN [err |-> res.err, dest |-> dest]
    ELSE IF res.rows = <<>> THEN [err |-> ErrNotFound, dest |-> dest]
    ELSE [err |-> Nil, dest |-> dest]

\* database.NamedQueryStruct, given what the query returned and the value
\* dest points to
NamedQueryStruct(res, dest) ==
    IF res.err # Nil THEN [err |-> res.err, dest |-> dest]
    ELSE IF res.rows = <<>> THEN [err |-> ErrNotFound, dest |-> dest]
    ELSE [err |-> Nil, dest |-> StructScan(res.rows[1])]

\* the caller is neither an admin nor the user the call is about
Forbidden(claims, userID) ==
    ~Authorized(claims, <<RoleAdmin>>) /\ claims.sub # userID

\* Store.Create with the ID validate.GenerateID returned
Create(table, nu, now, id, down) ==
    LET usr == [id |-> id, name |-> nu.name, email |-> nu.email,
                roles |-> nu.roles, hash |-> Hash(nu.password),
                dateCreated |-> now, dateUpdated |-> now]
        err == NamedExecContext(down)
    IN  IF err # Nil
        THEN [err |-> Wrapped(err, 1), usr |-> NoUser, table |-> table]
        ELSE [err |-> Nil, usr |-> usr,
              table |-> [table EXCEPT ![id] = Row(usr)]]

\* Store.QueryByID
QueryByID(table, claims, userID, down) ==
    IF Forbidden(claims, userID) THEN [err |-> ErrForbidden, usr |-> NoUser]
    ELSE LET got == NamedQueryStruct(NamedQueryContext(table, userID, down),
                                     NoUser)
         IN  IF got.err = Nil THEN [err |-> Nil, usr |-> got.dest]
             ELSE IF got.err = ErrNotFound
             THEN [err |-> ErrNotFound, usr |-> NoUser]
             ELSE [err |-> Wrapped(got.err, 1), usr |-> NoUser]

\* Store.Update: the non-nil fields of uu replace the stored ones
Update(table, claims, userID, uu, now, down) ==
    LET q == QueryByID(table, claims, userID, down)
        usr == [q.usr EXCEPT
                    !.name = IF uu.name = NoChange THEN @ ELSE uu.name,
                    !.email = IF uu.email = NoChange THEN @ ELSE uu.email,
                    !.dateUpdated = now]
    IN  IF q.err # Nil THEN [err |-> Wrapped(q.err, 1), table |-> table]
        ELSE IF NamedExecContext(down) # Nil
        THEN [err |-> Wrapped(ErrDB, 1), table |-> table]
        ELSE [err |-> Nil, table |-> [table EXCEPT ![userID] = Row(usr)]]

\* Store.Delete
Delete(table, claims, userID, down) ==
    IF Forbidden(claims, userID) THEN [err |-> ErrForbidden, table |-> table]
    ELSE IF NamedExecContext(down) # Nil
    THEN [err |-> Wrapped(ErrDB, 1), table |-> table]
    ELSE [err |-> Nil, table |-> [table EXCEPT ![userID] = NoRow]]

\* the user ID and database answer of a store call, what it returned, and
\* for QueryByID the claims it was given
StoreCall(name, id, claims, down, err, usr) ==
    [op |-> name, id |-> id, claims |-> claims, down |-> down, err |-> err,
     usr |-> usr]

\* a new store over an empty users table
StoreInit ==
    /\ users = [id \in Subjects |-> NoRow]
    /\ usedIDs = {}
    /\ created = [id \in Subjects |-> NoUser]
    /\ deleted = {}
    /\ storeRet = StoreCall("", "", NoClaims, FALSE, Nil, NoUser)

outsideStore ==
    <<requestVars, serverVars, tokenVars, authorizedVars, statusVars>>

\* a call of Store.Create; GenerateID returns a random UUID: an ID it never
\* returned before and that no Delete was called with before
DoCreate ==
    \E nu \in NewUsers, now \in Nows, id \in Subjects \ (usedIDs \cup deleted),
       down \in BOOLEAN :
        LET r == Create(users, nu, now, id, down)
        IN  /\ users' = r.table
            /\ usedIDs' = usedIDs \cup {id}
            /\ created' = IF r.err = Nil THEN [created EXCEPT ![id] = r.usr]
                          ELSE created
            /\ storeRet' = StoreCall("Create", id, NoClaims, down, r.err, r.usr)
            /\ UNCHANGED deleted
            /\ UNCHANGED outsideStore

\* a call of Store.QueryByID
DoQueryByID ==
    \E claims \in StoreClaims, userID \in Subjects, down \in BOOLEAN :
        LET r == QueryByID(users, claims, userID, down)
        IN  /\ storeRet' =
                   StoreCall("QueryByID", userID, claims, down, r.err, r.usr)
            /\ UNCHANGED <<users, usedIDs, created, deleted>>
            /\ UNCHANGED outsideStore

\* a call of Store.Update
DoUpdate ==
    \E claims \in StoreClaims, userID \in Subjects, uu \in UpdateUsers,
       now \in Nows, down \in BOOLEAN :
        LET r == Update(users, claims, userID, uu, now, down)
        IN  /\ users' = r.table
            /\ created' = IF r.err = Nil
                          THEN [created EXCEPT ![userID] = NoUser]
                          ELSE created
            /\ storeRet' =
                   StoreCall("Update", userID, NoClaims, down, r.err, NoUser)
            /\ UNCHANGED <<usedIDs, deleted>>
            /\ UNCHANGED outsideStore

\* a call of Store.Delete
DoDelete ==
    \E claims \in StoreClaims, userID \in Subjects, down \in BOOLEAN :
        LET r == Delete(users, claims, userID, down)
        IN  /\ users' = r.table
            /\ created' = IF r.err = Nil
                          THEN [created EXCEPT ![userID] = NoUser]
                          ELSE created
            /\ storeRet' =
                   StoreCall("Delete", userID, NoClaims, down, r.err, NoUser)
            /\ deleted' = IF r.err = Nil THEN deleted \cup {userID} ELSE deleted
            /\ UNCHANGED usedIDs
            /\ UNCHANGED outsideStore

StoreNext ==
    \/ DoCreate
    \/ DoQueryByID
    \/ DoUpdate
    \/ DoDelete

(***************************************************************************)
(* database.StatusCheck: the ping loop, the test of the context after it   *)
(* and the SELECT. The context becomes done by its cancel function or its  *)
(* deadline while StatusCheck runs, or is done when StatusCheck is called. *)
(***************************************************************************)
MaxAttempts == 3    \* values of the loop counter that are told apart

Canceled == NewError("context canceled")
DeadlineExceeded == NewError("context deadline exceeded")

\* ctx.Err() of a context that is done
CtxErr(kind) == IF kind = "timeout" THEN DeadlineExceeded ELSE Canceled

\* nothing pinged, tested or queried yet
SawNothing == [ping |-> "none", check |-> "none", query |-> "none"]

StatusInit ==
    /\ scPc = "idle"
    /\ attempts = 1
    /\ ctxKind = "none"
    /\ ctxDone = FALSE
    /\ scErr = Pending
    /\ scSaw = SawNothing

outsideStatus ==
    <<requestVars, serverVars, tokenVars, authorizedVars, storeVars>>

\* StatusCheck is called with some context: for attempts := 1
CallStatusCheck ==
    /\ scPc = "idle"
    /\ \E kind \in {"background", "cancel", "timeout"}, done \in BOOLEAN :
        /\ kind = "background" => ~done
        /\ ctxKind' = kind
        /\ ctxDone' = done
    /\ scPc' = "ping"
    /\ UNCHANGED <<attempts, scErr, scSaw>>
    /\ UNCHANGED outsideStatus

\* pingError = db.Ping() returned nil: break
PingOK ==
    /\ scPc = "ping"
    /\ scPc' = "check"
    /\ scSaw' = [scSaw EXCEPT !.ping = "ok"]
    /\ UNCHANGED <<attempts, ctxKind, ctxDone, scErr>>
    /\ UNCHANGED outsideStatus

\* pingError = db.Ping() returned an error
PingFail ==
    /\ scPc = "ping"
    /\ scPc' = "sleep"
    /\ scSaw' = [scSaw EXCEPT !.ping = "fail"]
    /\ UNCHANGED <<attempts, ctxKind, ctxDone, scErr>>
    /\ UNCHANGED outsideStatus

\* time.Sleep(attempts * 100ms) returned
Sleep ==
    /\ scPc = "sleep"
    /\ scPc' = "loopcheck"
    /\ UNCHANGED <<attempts, ctxKind, ctxDone, scErr, scSaw>>
    /\ UNCHANGED outsideStatus

\* a loop that pings again whatever the context says
LoopNoCheck ==
    /\ scPc = "loopcheck"
    /\ scPc' = "ping"
    /\ attempts' = IF attempts < MaxAttempts THEN attempts + 1 ELSE attempts
    /\ UNCHANGED <<scErr, ctxKind, ctxDone, scSaw>>
    /\ UNCHANGED outsideStatus

\* if ctx.Err() != nil { return ctx.Err() } in the loop, else attempts++.
\* The counter only sets the length of the sleep; counts from MaxAttempts on
\* are not told apart.
LoopCheck ==
    /\ scPc = "loopcheck"
    /\ IF ctxDone
       THEN /\ scPc' = "returned"
            /\ scErr' = CtxErr(ctxKind)
            /\ UNCHANGED attempts
       ELSE /\ scPc' = "ping"
            /\ attempts' =
                   IF attempts < MaxAttempts THEN attempts + 1 ELSE attempts
            /\ UNCHANGED scErr
    /\ UNCHANGED <<ctxKind, ctxDone, scSaw>>
    /\ UNCHANGED outsideStatus

\* a StatusCheck that queries whatever the context says after the loop
AfterLoopNoCheck ==
    /\ scPc = "check"
    /\ scPc' = "query"
    /\ scSaw' = [scSaw EXCEPT !.check = IF ctxDone THEN "done" ELSE "nil"]
    /\ UNCHANGED <<attempts, ctxKind, ctxDone, scErr>>
    /\ UNCHANGED outsideStatus

\* if ctx.Err() != nil { return ctx.Err() } after the loop
AfterLoopCheck ==
    /\ scPc = "check"
    /\ IF ctxDone
       THEN /\ scPc' = "returned"
            /\ scErr' = CtxErr(ctxKind)
       ELSE /\ scPc' = "query"
            /\ UNCHANGED scErr
    /\ scSaw' = [scSaw EXCEPT !.check = IF ctxDone THEN "done" ELSE "nil"]
    /\ UNCHANGED <<attempts, ctxKind, ctxDone>>
    /\ UNCHANGED outsideStatus

\* db.QueryRowContext(ctx, q).Scan(&tmp) returned nil
QueryOK ==
    /\ scPc = "query"
    /\ scPc' = "returned"
    /\ scErr' = Nil
    /\ scSaw' = [scSaw EXCEPT !.query = "ok"]
    /\ UNCHANGED <<attempts, ctxKind, ctxDone>>
    /\ UNCHANGED outsideStatus

\* the query failed: the database's error, or the context's when the context
\* became done meanwhile
QueryFail ==
    /\ scPc = "query"
    /\ scPc' = "returned"
    /\ scErr' \in {ErrDB} \cup (IF ctxDone THEN {CtxErr(ctxKind)} ELSE {})
    /\ scSaw' = [scSaw EXCEPT !.query = "fail"]
    /\ UNCHANGED <<attempts, ctxKind, ctxDone>>
    /\ UNCHANGED outsideStatus

\* the caller cancels the context while StatusCheck runs
Cancel ==
    /\ ctxKind = "cancel"
    /\ ~ctxDone
    /\ scPc \notin {"idle", "returned"}
    /\ ctxDone' = TRUE
    /\ UNCHANGED <<scPc, attempts, ctxKind, scErr, scSaw>>
    /\ UNCHANGED outsideStatus

\* the deadline of the context passes while StatusCheck runs
Timeout ==
    /\ ctxKind = "timeout"
    /\ ~ctxDone
    /\ scPc \notin {"idle", "returned"}
    /\ ctxDone' = TRUE
    /\ UNCHANGED <<scPc, attempts, ctxKind, scErr, scSaw>>
    /\ UNCHANGED outsideStatus

\* a step of StatusCheck itself
StatusStep ==
    \/ PingOK
    \/ PingFail
    \/ Sleep
    \/ LoopCheck
    \/ AfterLoopCheck
    \/ QueryOK
    \/ QueryFail

StatusNext ==
    \/ CallStatusCheck
    \/ StatusStep
    \/ Cancel
    \/ Timeout

AuthorizedInit ==
    /\ RequestInit /\ ServerInit /\ TokenInit /\ StoreInit /\ StatusInit
    /\ AnyCall

Init ==
    /\ RequestInit /\ ServerInit /\ TokenInit /\ AuthorizedIdle
    /\ StoreInit /\ StatusInit

Next ==
    \/ HandleRequest
    \/ HandleReturn
    \/ DirectCall
    \/ DirectReturn
    \/ LoggerPre
    \/ LoggerPost
    \/ ErrorsPre
    \/ ErrorsPost
    \/ MetricsPre
    \/ MetricsPost
    \/ PanicsPre
    \/ PanicsPost
    \/ MarkerPre
    \/ MarkerPost
    \/ AuthenticatePre
    \/ AuthenticatePost
    \/ AuthorizePre
    \/ AuthorizePost
    \/ TestRun
    \/ BusinessRun
    \/ MarkerHRun

Spec == Init /\ [][Next]_vars

\* The server and its request tasks; the single-request pipeline stands still.
ServerSpec == Init /\ [][ServerNext]_vars

\* a step of run itself
RunStep ==
    \/ RunServerError
    \/ RunReceive
    \/ RunShutdown

\* run keeps running: a receive of its select that can be made is made, and
\* api.Shutdown returns, at the latest when its deadline passes.
ServerFairSpec == ServerSpec /\ WF_vars(RunStep)

\* The Authenticator and the tokens; everything else stands still.
TokenSpec == Init /\ [][TokenNext]_vars

\* Calls of Claims.Authorized on any claims with any roles.
AuthorizedSpec == AuthorizedInit /\ [][AuthorizedNext]_vars

\* The user store and its table; everything else stands still.
StoreSpec == Init /\ [][StoreNext]_vars

\* One call of database.StatusCheck; everything else stands still.
StatusSpec == Init /\ [][StatusNext]_vars

\* StatusCheck keeps running (Ping, Sleep and the query return), and the
\* deadline of a context with a deadline passes.
StatusFairSpec ==
    StatusSpec /\ WF_vars(StatusStep) /\ WF_vars(Timeout)

(***************************************************************************)
(* Vocabulary of the properties.                                           *)
(***************************************************************************)
Done == pc = "done"

Returned == pc \in {"handled", "done"}

\* index in chain of the layer of this kind, 0 when there is none
IndexOf(kind) ==
    IF \E i \in 1..Len(chain) : chain[i].kind = kind
    THEN CHOOSE i \in 1..Len(chain) : chain[i].kind = kind
    ELSE 0

Happened(ev) == \E i \in 1..Len(trace) : trace[i] = ev

Count(ev) == Cardinality({i \in 1..Len(trace) : trace[i] = ev})

\* layer d was called
Called(d) == d >= 1 /\ Len(ctxs) >= d

\* layer d has returned
HasReturned(d) == d >= 1 /\ d <= Len(ret) /\ ret[d] # Pending

IsInbound(e) == e.ev \in {"pre", "run"}

IsOutbound(e) == e.ev \in {"post", "run"}

LayersOf(events) == [i \in 1..Len(events) |-> events[i].layer]

KindsOf(layers) == [i \in 1..Len(layers) |-> layers[i].kind]

Reverse(s) == [i \in 1..Len(s) |-> s[Len(s) + 1 - i]]

Range(s) == {s[i] : i \in 1..Len(s)}

Last(s) == s[Len(s)]

(***************************************************************************)
(* C1. Two middlewares A, B registered in that order around H: a request   *)
(* runs A's code before the call, B's code before the call, H, B's code    *)
(* after the call, A's code after the call, and nothing else, whether the  *)
(* two are the application's middleware, the route's, or one of each.      *)
(***************************************************************************)
MarkerOrder ==
    <<Ev("A", "pre"), Ev("B", "pre"), Ev("H", "run"), Ev("B", "post"), Ev("A", "post")>>

C1_MiddlewareOrder ==
    (Returned /\ wiring \in MarkerRoutes) => trace = MarkerOrder

C1_Witness ==
    /\ Done
    /\ wiring = Route(<<MarkerA>>, MarkerH, <<MarkerB>>)
    /\ trace = MarkerOrder

(***************************************************************************)
(* C2. On every route of the service the layers are entered in the order   *)
(* Logger, Errors, Metrics, Panics, the route's middleware as declared,    *)
(* the handler; they are left in the reverse of the order they were        *)
(* entered in.                                                             *)
(***************************************************************************)
ServiceOrder ==
    <<"Logger", "Errors", "Metrics", "Panics">>
        \o KindsOf(wiring.route) \o <<wiring.handler.kind>>

C2_OnionOrder ==
    (viaHandle /\ wiring \in V1Routes) =>
        LET ins == LayersOf(SelectSeq(trace, IsInbound))
            outs == LayersOf(SelectSeq(trace, IsOutbound))
        IN  /\ Len(ins) <= Len(ServiceOrder)
            /\ ins = SubSeq(ServiceOrder, 1, Len(ins))
            /\ Returned => outs = Reverse(ins)

C2_Witness ==
    /\ Done
    /\ viaHandle
    /\ wiring = Route(APIMuxMw, Test, <<Authenticate, Authorize(<<RoleAdmin>>)>>)
    /\ LayersOf(SelectSeq(trace, IsInbound)) = ServiceOrder

(***************************************************************************)
(* C3. An Authorization header that is not the word bearer (in any letter  *)
(* case), one space, and one more word: Authenticate returns a             *)
(* RequestError with status 401, ValidateToken is not called, the next     *)
(* handler is not called, and the one response of the request has status   *)
(* 401.                                                                    *)
(***************************************************************************)
\* the shape "bearer <token>", said without splitting: exactly one space,
\* at the second place, after the single run bearer or Bearer
BearerForm(h) ==
    /\ Len(h) >= 2
    /\ h[1] \in {"bearer", "Bearer"}
    /\ h[2] = Space
    /\ \A i \in 3..Len(h) : h[i] # Space

AuthenticateAt == IndexOf("Authenticate")

C3_MalformedHeader401 ==
    (HasReturned(AuthenticateAt) /\ ~BearerForm(header)) =>
        /\ ret[AuthenticateAt].kind = "request"
        /\ ret[AuthenticateAt].status = StatusUnauthorized
        /\ ret[AuthenticateAt].wrap = 0
        /\ validateCalls = 0
        /\ ~Called(AuthenticateAt + 1)
        /\ ~Happened(Ev(wiring.handler.kind, "run"))
        /\ Returned =>
             /\ Len(written) = 1
             /\ written[1].status = StatusUnauthorized

C3_Witness ==
    /\ Done
    /\ viaHandle
    /\ wiring = Route(APIMuxMw, Test, <<Authenticate, Authorize(<<RoleAdmin>>)>>)
    /\ header = <<"bearer", Space, Space>>
    /\ written = <<Response(StatusUnauthorized, MsgHeaderFormat, TRUE)>>

(***************************************************************************)
(* C4. A header of the shape bearer <token>: ValidateToken is called once. *)
(* If it fails, Authenticate returns a RequestError with status 401 and    *)
(* the next handler is not called. If it succeeds, the next handler is     *)
(* called once, with the context Authenticate got plus exactly the claims  *)
(* ValidateToken returned, and Authenticate returns what it returned.      *)
(***************************************************************************)
AuthenticateRan == Happened(Ev("Authenticate", "pre"))

\* how many times the layer below d began to run
NextRuns(d) ==
    Count(Ev(chain[d + 1].kind, "pre")) + Count(Ev(chain[d + 1].kind, "run"))

C4_AuthenticateValidates ==
    /\ validateCalls <= 1
    /\ (AuthenticateRan /\ BearerForm(header)) =>
         /\ validateCalls = 1
         /\ validated.err # Nil =>
              /\ ret[AuthenticateAt].kind = "request"
              /\ ret[AuthenticateAt].status = StatusUnauthorized
              /\ ~Called(AuthenticateAt + 1)
              /\ ~Happened(Ev(wiring.handler.kind, "run"))
         /\ validated.err = Nil =>
              /\ Called(AuthenticateAt + 1)
              /\ ctxs[AuthenticateAt + 1] =
                     [ctxs[AuthenticateAt] EXCEPT !.claims = validated.claims]
              /\ validated.claims.present
              /\ NextRuns(AuthenticateAt) <= 1
              /\ HasReturned(AuthenticateAt + 1) => NextRuns(AuthenticateAt) = 1
              /\ HasReturned(AuthenticateAt) =>
                     ret[AuthenticateAt] = ret[AuthenticateAt + 1]

C4_Witness ==
    /\ Done
    /\ wiring = Route(APIMuxMw, Business, <<Authenticate>>)
    /\ header = <<"Bearer", Space, "tok">>
    /\ validated.claims = ClaimsOf("user-2", <<RoleUser>>)
    /\ ctxs[Len(chain)].claims = validated.claims
    /\ ret[AuthenticateAt] = NewRequestError(MsgForbidden, StatusForbidden)

(***************************************************************************)
(* C5. Authorize(roles) with claims in the context: the next handler is    *)
(* called, with the same context and its result returned as it is, if and  *)
(* only if the claims have a role among roles; otherwise Authorize returns *)
(* a RequestError with status 403.                                         *)
(***************************************************************************)
AuthorizeAt == IndexOf("Authorize")

AuthorizeRan == Happened(Ev("Authorize", "pre"))

SharesRole(claims, roles) == Range(claims.roles) \cap Range(roles) # {}

C5_AuthorizeByRole ==
    (AuthorizeRan /\ ctxs[AuthorizeAt].claims.present) =>
        /\ Called(AuthorizeAt + 1) <=>
               SharesRole(ctxs[AuthorizeAt].claims, chain[AuthorizeAt].roles)
        /\ Called(AuthorizeAt + 1) =>
               /\ ctxs[AuthorizeAt + 1] = ctxs[AuthorizeAt]
               /\ HasReturned(AuthorizeAt) =>
                      ret[AuthorizeAt] = ret[AuthorizeAt + 1]
        /\ ~Called(AuthorizeAt + 1) =>
               /\ ret[AuthorizeAt].kind = "request"
               /\ ret[AuthorizeAt].status = StatusForbidden
               /\ ~Happened(Ev(wiring.handler.kind, "run"))

C5_Witness ==
    /\ Done
    /\ AuthorizeRan
    /\ chain[AuthorizeAt].roles = <<RoleAdmin, RoleUser>>
    /\ ctxs[AuthorizeAt].claims.roles = <<RoleUser>>
    /\ Happened(Ev("Business", "run"))

(***************************************************************************)
(* C6. Authorize without claims in the context: whatever roles it was      *)
(* built with, it returns a RequestError with status 403 and the next      *)
(* handler is not called.                                                  *)
(***************************************************************************)
C6_AuthorizeNoClaims ==
    (AuthorizeRan /\ ~ctxs[AuthorizeAt].claims.present) =>
        /\ ret[AuthorizeAt].kind = "request"
        /\ ret[AuthorizeAt].status = StatusForbidden
        /\ ret[AuthorizeAt].wrap = 0
        /\ ~Called(AuthorizeAt + 1)
        /\ ~Happened(Ev(wiring.handler.kind, "run"))

C6_Witness ==
    /\ Done
    /\ viaHandle
    /\ wiring = Route(<<Errors>>, Business, <<Authorize(<<RoleAdmin, RoleUser>>)>>)
    /\ ret[AuthorizeAt] = NewRequestError(MsgNoClaims, StatusForbidden)
    /\ written = <<Response(StatusForbidden, MsgNoClaims, TRUE)>>

(***************************************************************************)
(* C7. The error response of Errors has status 400 when the root of the    *)
(* returned error is a field validation error, the carried status when it  *)
(* is a RequestError, and 500 for every other error, a shutdown error      *)
(* included, however often the error was wrapped.                          *)
(***************************************************************************)
ErrorsAt == IndexOf("Errors")

ErrorsResponded == Happened(Ev("Errors", "respond"))

\* the error the next handler returned to Errors
ErrorsGot == ret[ErrorsAt + 1]

C7_ErrorStatusMapping ==
    ErrorsResponded =>
        /\ written # <<>>
        /\ Last(written).status =
               IF ErrorsGot.kind = "field" THEN 400
               ELSE IF ErrorsGot.kind = "request" THEN ErrorsGot.status
               ELSE 500
        /\ statusCode = Last(written).status

C7_Witness ==
    /\ Done
    /\ ErrorsResponded
    /\ ErrorsGot = Wrapped(NewFieldErrors(MsgValidation), 1)
    /\ Last(written) = Response(400, MsgValidation, TRUE)

(***************************************************************************)
(* C8. The response to an error that is neither a field validation error   *)
(* nor a RequestError does not depend on the error: status 500 and the     *)
(* text "Internal Server Error". The error's own text is in the server log *)
(* and in no response.                                                     *)
(***************************************************************************)
Unclassified(err) == err.kind \notin {"nil", "pending", "field", "request"}

C8_NoDetailLeak ==
    (ErrorsResponded /\ Unclassified(ErrorsGot)) =>
        /\ Last(written).status = 500
        /\ Last(written).body = "Internal Server Error"
        /\ \A i \in 1..Len(written) : written[i].body # ErrorsGot.msg
        /\ \E i \in 1..Len(log) : log[i].src = "Errors" /\ log[i].msg = ErrorsGot.msg

C8_Witness ==
    /\ Done
    /\ viaHandle
    /\ wiring = Route(APIMuxMw, Test, <<>>)
    /\ ErrorsGot = NewError(MsgUntrusted)
    /\ written = <<Response(500, "Internal Server Error", TRUE)>>

(***************************************************************************)
(* C9. Every request handled on a route of the service has exactly one     *)
(* response written when the chain has returned.                           *)
(***************************************************************************)
C9_ExactlyOneResponse ==
    (Returned /\ viaHandle /\ wiring \in V1Routes) => Len(written) = 1

(***************************************************************************)
(* C10, as claimed. When the next handler returned a shutdown error,       *)
(* Errors has written the error response before it returns, and it        *)
(* returns that same error.                                                *)
(***************************************************************************)
ShutdownCase == HasReturned(ErrorsAt) /\ Called(ErrorsAt + 1) /\ IsShutdown(ErrorsGot)

C10_SameErrorAfterResponse ==
    ShutdownCase =>
        /\ ErrorsResponded
        /\ Last(written).complete
        /\ ret[ErrorsAt] = ErrorsGot

(***************************************************************************)
(* C10, amended. When the next handler returned a shutdown error, Errors   *)
(* calls Respond for the error response before it returns; it returns     *)
(* that same error when the response was written, and the error of the     *)
(* write when writing failed. Either way it returns an error, and          *)
(* App.Handle signals shutdown only after that Respond call.               *)
(***************************************************************************)
\* index in trace of the only event ev, 0 when it did not happen
When(ev) ==
    IF Happened(ev) THEN CHOOSE i \in 1..Len(trace) : trace[i] = ev ELSE 0

C10_ShutdownAfterRespond ==
    ShutdownCase =>
        /\ ErrorsResponded
        /\ written # <<>>
        /\ Last(written).status = 500
        /\ Last(written).complete => ret[ErrorsAt] = ErrorsGot
        /\ ~Last(written).complete => ret[ErrorsAt] = NewError(MsgWriteFailed)
        /\ ret[ErrorsAt] # Nil
        /\ Happened(Ev("App", "signal")) =>
               When(Ev("Errors", "respond")) < When(Ev("App", "signal"))
        /\ (Done /\ viaHandle) => Happened(Ev("App", "signal"))

C10_Witness ==
    /\ Done
    /\ viaHandle
    /\ wiring \in V1Routes
    /\ ErrorsGot = NewShutdownError(MsgNoValues)
    /\ written = <<Response(500, "Internal Server Error", TRUE)>>
    /\ ret[1] = ErrorsGot
    /\ signals = 1
    /\ Last(trace) = Ev("App", "signal")

(***************************************************************************)
(* C11. App.Handle signals shutdown for a request only when the error that *)
(* arose in its chain is the shutdown-flagged error; an error of any other *)
(* kind, a failed write of the error response included, never causes the   *)
(* signal.                                                                 *)
(***************************************************************************)
FatalArose ==
    \E d \in 1..Len(ret) : ret[d] # Pending /\ ret[d] # Nil /\ IsShutdown(ret[d])

C11_SignalOnlyWhenFatal ==
    Happened(Ev("App", "signal")) => FatalArose

(***************************************************************************)
(* C12. No request task blocks on another: whatever the number of requests *)
(* in flight, and whether or not the OS sends a signal as well, no request *)
(* task is ever left waiting in SignalShutdown's send on the shutdown      *)
(* channel with nothing left that would receive from the channel.          *)
(***************************************************************************)
\* task t waits in a.shutdown <- syscall.SIGTERM while run, the only receiver,
\* has left its select and waits in api.Shutdown for the requests in flight:
\* the send never returns
SendBlocked(t) ==
    /\ tpc[t] = "signal"
    /\ Len(shutdown) >= ShutdownCap
    /\ runPc = "shutdown"

C12_NoTaskBlocks == \A t \in Tasks : ~SendBlocked(t)

(***************************************************************************)
(* C13. Every request in flight has a Values record of its own and a       *)
(* claims binding of its own: under every interleaving of the request      *)
(* tasks, the trace ID, the status code and the claims the code of a       *)
(* request reads are the ones of that request.                             *)
(***************************************************************************)
C13_ValuesOwned ==
    \A t \in Tasks :
        /\ tpc[t] # "new" =>
             /\ tctx[t].values # NoAddr
             /\ \A u \in Tasks \ {t} : tctx[u].values # tctx[t].values
        /\ seen[t].started \in {NotSeen.started, TraceIDOf(t)}
        /\ seen[t].completed \in {NotSeen.completed, TraceIDOf(t)}
        /\ seen[t].claims \in {NotSeen.claims, req[t].claims}
        /\ seen[t].status \in {NotSeen.status, req[t].status}
        /\ tpc[t] \in {"returned", "signal", "finished"} =>
             /\ seen[t].started = TraceIDOf(t)
             /\ seen[t].completed = TraceIDOf(t)
             /\ seen[t].claims = req[t].claims
             /\ seen[t].claims.present
             /\ seen[t].status = req[t].status

\* two requests in flight together, with different claims and different
\* status codes; the first has read its own after the second wrote its own
C13_Witness ==
    \E t, u \in Tasks :
        /\ t # u
        /\ tpc[t] = "returned"
        /\ tpc[u] = "completed"
        /\ req[t].claims # req[u].claims
        /\ req[t].status = StatusOK
        /\ req[u].status = StatusInternalServerError
        /\ seen[t].status = StatusOK
        /\ seen[t].claims = req[t].claims
        /\ seen[u].claims = req[u].claims

(***************************************************************************)
(* C14. Token round trip: a token generated for claims whose expiry lies   *)
(* in the future, signed with the private key of the active key ID and     *)
(* validated with the public key the key store returns for the token's     *)
(* kid, validates, and the claims returned equal the claims it was         *)
(* generated for. The same for GenToken's own token and key.               *)
(***************************************************************************)
ValidatedNow == result # NoValidation

\* Auth.ValidateToken has returned for the token at hand
AuthValidated == ValidatedNow /\ op \in {"generate", "present"}

InFuture(exp) == exp # NoExpiry /\ clock < exp

InPast(exp) == exp # NoExpiry /\ exp < clock

Unexpired(exp) == exp = NoExpiry \/ clock < exp

C14_TokenRoundTrip ==
    /\ (/\ op = "generate"
        /\ ValidatedNow
        /\ InFuture(issued.claims.exp)
        /\ issued.kid \in DOMAIN auth.keys)
       => (result.err = Nil /\ result.claims = issued.claims /\ reached)
    /\ (op = "gentoken" /\ ValidatedNow)
       => (result.err = Nil /\ result.claims = issued.claims)

C14_Witness ==
    /\ op = "generate"
    /\ ValidatedNow
    /\ clock > 0
    /\ issued.claims = TokenClaimsOf("user-2", <<RoleAdmin>>, clock + 1)
    /\ result.err = Nil
    /\ result.claims = issued.claims

(***************************************************************************)
(* C15. A token whose method is not RS256 fails validation, whatever its   *)
(* kid, its signature and its claims are: no claims are returned and       *)
(* Authenticate does not call the next handler.                            *)
(***************************************************************************)
C15_MethodAllowList ==
    (AuthValidated /\ tokenStr.alg # RS256) =>
        /\ result.err # Nil
        /\ result.claims = NoTokenClaims
        /\ ~reached

\* an RS512 token named after a key of the key store and signed with it
C15_Witness ==
    /\ AuthValidated
    /\ tokenStr.alg = RS512
    /\ tokenStr.kid \in DOMAIN auth.keys
    /\ Verify(RS512, SigningString(tokenStr), tokenStr.sig,
              PublicKey(auth.keys[tokenStr.kid]))
    /\ ClaimsValid(tokenStr.payload, clock)
    /\ result.err # Nil
    /\ ~reached

(***************************************************************************)
(* C16. A token whose kid the key store does not hold fails validation and *)
(* yields no claims; when it is of the allowed method, so that the key is  *)
(* asked for, the error is the key lookup error. A token that validates    *)
(* was verified with the key the key store holds for the kid of the        *)
(* token's own header, never with another key.                             *)
(***************************************************************************)
C16_UnknownKeyID ==
    /\ (AuthValidated /\ tokenStr.kid \notin DOMAIN auth.keys)
       => /\ result.err # Nil
          /\ result.claims = NoTokenClaims
          /\ ~reached
          /\ (tokenStr.alg = RS256 /\ tokenStr.kid # NoKID) =>
                /\ Cause(result.err).msg = MsgKIDLookup
                /\ result.flags = {Unverifiable}
    /\ (AuthValidated /\ result.err = Nil)
       => /\ tokenStr.kid \in DOMAIN auth.keys
          /\ tokenStr.sig.by = auth.keys[tokenStr.kid]

\* a token whose kid is not in the key store, signed with the active key
C16_Witness ==
    /\ AuthValidated
    /\ tokenStr.alg = RS256
    /\ tokenStr.kid = "kid-x"
    /\ auth.activeKID \in DOMAIN auth.keys
    /\ tokenStr.sig.by = auth.keys[auth.activeKID]
    /\ tokenStr.sig.over = SigningString(tokenStr)
    /\ ClaimsValid(tokenStr.payload, clock)
    /\ Cause(result.err).msg = MsgKIDLookup

(***************************************************************************)
(* C17. A token whose expiry lies in the past fails validation and yields  *)
(* no claims; when it is of the allowed method and its kid is in the key   *)
(* store, so that its claims are looked at, the error carries the expired  *)
(* flag whether the signature verifies or not.                             *)
(***************************************************************************)
C17_ExpiredToken ==
    (AuthValidated /\ InPast(tokenStr.payload.exp))
    => /\ result.err # Nil
       /\ result.claims = NoTokenClaims
       /\ ~reached
       /\ (tokenStr.alg = RS256 /\ tokenStr.kid \in DOMAIN auth.keys) =>
             Expired \in result.flags

\* an expired token whose signature does not verify either
C17_Witness ==
    /\ AuthValidated
    /\ tokenStr.alg = RS256
    /\ tokenStr.kid \in DOMAIN auth.keys
    /\ InPast(tokenStr.payload.exp)
    /\ ~Verify(RS256, SigningString(tokenStr), tokenStr.sig,
               PublicKey(auth.keys[tokenStr.kid]))
    /\ result.flags = {Expired, SignatureInvalid}

(***************************************************************************)
(* C18. Key rotation: every token the Authenticator generates names the    *)
(* one key ID that was active when the Authenticator was constructed and   *)
(* is signed with that key; a token that has not expired and was generated *)
(* under another key ID which the key store still holds validates, with    *)
(* the claims it was generated for.                                        *)
(***************************************************************************)
C18_KeyRotation ==
    /\ op = "generate" =>
         /\ issued.kid \in KeyIDs
         /\ tokenStr.kid = issued.kid
         /\ tokenStr.sig.by = KeyFile(issued.kid)
         /\ tokenStr.alg = RS256
    /\ (/\ op = "generate"
        /\ ValidatedNow
        /\ issued.kid # auth.activeKID
        /\ issued.kid \in DOMAIN auth.keys
        /\ Unexpired(issued.claims.exp))
       => (result.err = Nil /\ result.claims = issued.claims /\ reached)

C18_Witness ==
    /\ op = "generate"
    /\ ValidatedNow
    /\ issued.kid = "kid-1"
    /\ auth.activeKID = "kid-2"
    /\ result.err = Nil
    /\ result.claims = issued.claims
    /\ issued.claims.exp # NoExpiry

(***************************************************************************)
(* C19. For all claims c and every non-empty list R of required roles,     *)
(* c.Authorized(R) is true exactly when some role of c is one of R; claims *)
(* without roles are never authorized. Authorize calls the next handler    *)
(* exactly when Authorized is true.                                        *)
(***************************************************************************)
C19_AuthorizedIffIntersects ==
    (answer.done /\ wantRoles # <<>>) =>
        /\ answer.ok <=> (Range(hasClaims.roles) \cap Range(wantRoles) # {})
        /\ hasClaims.roles = <<>> => ~answer.ok
        /\ answer.call <=> answer.ok

\* the one common role is the last of both lists
C19_Witness ==
    /\ answer.done
    /\ hasClaims.roles = <<RoleUser, RoleAdmin>>
    /\ wantRoles = <<"GUEST", RoleAdmin>>
    /\ answer.ok
    /\ answer.call


(***************************************************************************)
(* C20: read after create. After Create succeeded and returned user u, and *)
(* before any Update or Delete of that user, a QueryByID(u.ID) with claims *)
(* whose subject is u.ID, answered by the database, returns no error and a *)
(* user equal to u in every field.                                         *)
(***************************************************************************)
OwnQueryAfterCreate ==
    /\ storeRet.op = "QueryByID"
    /\ created[storeRet.id] # NoUser
    /\ storeRet.claims.sub = storeRet.id
    /\ ~storeRet.down

QueryAfterDelete ==
    /\ storeRet.op = "QueryByID"
    /\ storeRet.id \in deleted
    /\ ~storeRet.down

C22_NilOnlyIfHealthy ==
    scPc = "returned" =>
        /\ scErr # Pending
        /\ scErr = Nil <=>
               /\ scSaw.ping = "ok"
               /\ scSaw.check = "nil"
               /\ scSaw.query = "ok"
        /\ scSaw.ping = "fail" => scErr = CtxErr(ctxKind)
        /\ scSaw.check = "done" => scErr = CtxErr(ctxKind)
        /\ scSaw.query = "fail" => scErr # Nil

C22_Witness ==
    /\ scPc = "returned"
    /\ scSaw.ping = "ok"
    /\ scSaw.check = "done"
    /\ attempts > 1
    /\ scErr = DeadlineExceeded


(***************************************************************************)
(* C28: termination of StatusCheck. The ping loop is left exactly by a     *)
(* ping that succeeds or, after a failed ping and its sleep, by the test   *)
(* that finds the context done, and it is left at once then. StatusCheck   *)
(* returns only after a successful ping or with the context done. Called   *)
(* with a context whose deadline passes it returns; it also returns once a *)
(* ping succeeded and once the context is done. So it runs forever exactly *)
(* when every ping fails and the context never becomes done.               *)
(***************************************************************************)
InPingLoop == scPc \in {"ping", "sleep", "loopcheck"}

LoopLeftOnlyByPingOrDone ==
    /\ (InPingLoop /\ ~InPingLoop') =>
           \/ scPc = "ping" /\ scSaw'.ping = "ok" /\ scPc' = "check"
           \/ /\ scPc = "loopcheck" /\ scSaw.ping = "fail" /\ ctxDone
              /\ scPc' = "returned" /\ scErr' = CtxErr(ctxKind)
    /\ (scPc = "ping" /\ scSaw'.ping = "ok" /\ scPc' # scPc) => ~InPingLoop'
    /\ (scPc = "loopcheck" /\ ctxDone /\ scPc' # scPc) => ~InPingLoop'
    /\ (scPc = "loopcheck" /\ ~ctxDone /\ scPc' # scPc) => scPc' = "ping"

C28_StatusCheckTerminates ==
    /\ [][LoopLeftOnlyByPingOrDone]_vars
    /\ [](scPc = "returned" => (scSaw.ping = "ok" \/ ctxDone))
    /\ (ctxKind = "timeout") ~> (scPc = "returned")
    /\ (scPc # "idle" /\ ctxDone) ~> (scPc = "returned")
    /\ (scSaw.ping = "ok") ~> (scPc = "returned")

C28_Witness ==
    /\ scPc = "returned"
    /\ scSaw.ping = "fail"
    /\ attempts = MaxAttempts
    /\ ctxKind = "timeout"


(***************************************************************************)
(* C23. When the next handler returned to Errors an error that is not a    *)
(* shutdown error and the error response was written, Errors returns nil.  *)
(* On a route of the service App.Handle then gets nil and does not signal  *)
(* shutdown for the request, whatever the error was: a 401 of Authenticate *)
(* and a 403 of Authorize included.                                        *)
(***************************************************************************)
HandledError ==
    /\ HasReturned(ErrorsAt)
    /\ Called(ErrorsAt + 1)
    /\ ErrorsGot # Nil
    /\ ~IsShutdown(ErrorsGot)
    /\ ErrorsResponded
    /\ Last(written).complete

ErrorsWithoutValues ==
    /\ Happened(Ev("Errors", "pre"))
    /\ ~ctxs[ErrorsAt].values

C24_NoValuesNoInner ==
    ErrorsWithoutValues =>
        /\ HasReturned(ErrorsAt)
        /\ ret[ErrorsAt] = NewShutdownError(MsgNoValues)
        /\ IsShutdown(ret[ErrorsAt])
        /\ ~Called(ErrorsAt + 1)
        /\ \A d \in (ErrorsAt + 1)..Len(chain) :
               \A i \in 1..Len(trace) : trace[i].layer # chain[d].kind
        /\ ~ErrorsResponded
        /\ written = <<>>
        /\ \A i \in 1..Len(log) : log[i].src # "Errors"

C24_Witness ==
    /\ Done
    /\ ErrorsWithoutValues
    /\ wiring = Route(<<Errors>>, Business, <<Authenticate>>)
    /\ trace = <<Ev("Errors", "pre"), Ev("Errors", "post")>>


(***************************************************************************)
(* C25. On every route of the service registered with Authenticate and     *)
(* Authorize(ADMIN), the handler runs only for a request with a header of  *)
(* the form bearer <token> whose token ValidateToken accepted and whose    *)
(* claims, the ones the handler then finds in its context, have the ADMIN  *)
(* role. Authorize always finds claims in its context on these routes.     *)
(***************************************************************************)
ProtectedRoute ==
    /\ viaHandle
    /\ wiring \in V1Routes
    /\ {"Authenticate", "Authorize"} \subseteq Range(KindsOf(wiring.route))

HandlerRan == Happened(Ev(wiring.handler.kind, "run"))

C25_RouteProtection ==
    ProtectedRoute =>
        /\ \A i \in 1..Len(wiring.route) :
               wiring.route[i].kind = "Authorize" =>
                   wiring.route[i].roles = <<RoleAdmin>>
        /\ HandlerRan =>
               /\ BearerForm(header)
               /\ validateCalls = 1
               /\ validated.err = Nil
               /\ RoleAdmin \in Range(validated.claims.roles)
               /\ ctxs[Len(chain)].claims = validated.claims
        /\ AuthorizeRan =>
               /\ ctxs[AuthorizeAt].claims.present
               /\ ctxs[AuthorizeAt].claims = validated.claims
               /\ HasReturned(AuthenticateAt + 1) /\ ~HandlerRan =>
                      ret[AuthorizeAt] =
                          NewRequestError(MsgNotAuthorized, StatusForbidden)

C25_Witness ==
    /\ Done
    /\ ProtectedRoute
    /\ wiring.handler = Business
    /\ HandlerRan
    /\ validated.claims = ClaimsOf("user-1", <<RoleAdmin>>)


(***************************************************************************)
(* C26. The shutdown sequence of run. Before run has received anything it  *)
(* has called neither api.Shutdown nor api.Close. Once it has received     *)
(* from the shutdown channel it has called api.Shutdown. It returns nil    *)
(* exactly when api.Shutdown was its only call, which is when no request   *)
(* was left in flight by the deadline; otherwise it has called api.Close   *)
(* after api.Shutdown and returns an error. When it received the           *)
(* listener's error it returns an error and has called neither. Once it    *)
(* has received from the shutdown channel, and once the listener's error   *)
(* is in serverErrors, run returns.                                        *)
(***************************************************************************)
RunSequence ==
    /\ runPc = "select" => (apiCalls = <<>> /\ runErr = Pending)
    /\ runPc = "shutdown" => (apiCalls = <<"Shutdown">> /\ runErr = Pending)
    /\ runPc = "returned" =>
        /\ runErr \in {Nil, ErrShutdown, ErrServer}
        /\ runErr = Nil <=> apiCalls = <<"Shutdown">>
        /\ runErr = ErrShutdown <=> apiCalls = <<"Shutdown", "Close">>
        /\ runErr = ErrServer <=> apiCalls = <<>>
        /\ runErr = Nil => \A t \in Tasks : ~InFlight(t)
        /\ runErr = ErrShutdown => \E t \in Tasks : InFlight(t)
        /\ runErr = ErrServer => lpc = "exited"

C26_ShutdownSequence ==
    /\ []RunSequence
    /\ (runPc = "shutdown") ~> (runPc = "returned")
    /\ (runPc = "select" /\ serverErrors # <<>>) ~> (runPc = "returned")

C26_Witness ==
    /\ runPc = "returned"
    /\ runErr = ErrShutdown
    /\ apiCalls = <<"Shutdown", "Close">>
    /\ \E t \in Tasks : tpc[t] = "signal"

(***************************************************************************)
(* C27. The listener goroutine sends on serverErrors once, when            *)
(* api.ListenAndServe has returned, and that send never has to wait: the   *)
(* channel has room for it whether run is still in its select or has taken *)
(* the shutdown branch, from which it never receives from serverErrors.    *)
(***************************************************************************)
ServerErrorReceived == runPc = "returned" /\ runErr = ErrServer

C27_ListenerNeverBlocks ==
    /\ (Alive /\ lpc = "sending") => ENABLED ListenerSend
    /\ Len(serverErrors) + (IF ServerErrorReceived THEN 1 ELSE 0)
           = (IF lpc = "exited" THEN 1 ELSE 0)
    /\ Len(serverErrors) <= ServerErrorsCap
    /\ lpc = "serving" <=> listenErr = Pending

C27_Witness ==
    /\ lpc = "exited"
    /\ runPc = "shutdown"
    /\ serverErrors = <<ErrServerClosed>>

====
